---- MODULE Spec2Model ----
(***************************************************************************)
(* Verification model of the WhisperScribe transcription utilities:        *)
(* the repetitive-pattern cleaner (cleanRepetitiveText, detectHallucination,*)
(* cleanTranscription) and the structured response parser.                 *)
(*                                                                         *)
(* A string is a sequence of items.  An item is either a whitespace        *)
(* character (" ", "\n") or an indivisible run of non-whitespace           *)
(* characters ("fa", "SUMMARY:").  Three characters are written by name:   *)
(* "[fence]" is the run of three backquotes that opens or closes a code    *)
(* block, "[backquote]" one backquote and "[bullet]" the bullet character; *)
(* "[emoji]" is one emoji and "caf[e-acute]" a word with an accented       *)
(* letter.                                                                 *)
(* Arrays of strings are sequences of strings.  Indices of the code are    *)
(* 0-based and kept 0-based here; only the accesses add 1.                 *)
(***************************************************************************)
EXTENDS Integers, Sequences, FiniteSets, TLC

VARIABLES text, pc, maxRepetitions, threshold, cleanedText, recleanedText,
          hadHallucination, responseText, includeFeatures, parsed,
          inputTags, formattedTags, scanStart, scanned,
          cursor, emitted, counted, runPos, runLen, runCount,
          provider, transcriptionResult,
          docs, activeView, settings, invocations, notices, uploads, statusEl

\* the state of the loops run one iteration at a time: the cursor i of the
\* cleaner and of the score, the cleanedWords emitted, the repetitiveWords
\* counted, and pos, patternLen and repetitions of the scanner's inner loop
stepVars == <<cursor, emitted, counted, runPos, runLen, runCount>>

parserVars == <<responseText, includeFeatures, parsed>>

\* the provider that was called and the TranscriptionResult it returned
\* the plugin: the lines of each editor, the editor of the active markdown
\* view, the settings, the place of each invocation of transcribeMediaFile
\* (with its editor, its cursor line, its file, and the number of the
\* original line it was invoked on),
\* the notices shown, the invocations that called transcribeWithAI, and the
\* text of the status bar item
pluginVars == <<docs, activeView, settings, invocations, notices, uploads, statusEl>>

callerVars == <<provider, transcriptionResult, pluginVars>>

\* the argument and the result of formatTagsAsObsidianTags
formatVars == <<inputTags, formattedTags>>

\* the startIndex argument and the result of findLongestRepetitivePattern
scanVars == <<scanStart, scanned>>

vars == <<text, pc, maxRepetitions, threshold, cleanedText, recleanedText,
          hadHallucination, responseText, includeFeatures, parsed,
          inputTags, formattedTags, scanStart, scanned,
          cursor, emitted, counted, runPos, runLen, runCount,
          provider, transcriptionResult,
          docs, activeView, settings, invocations, notices, uploads, statusEl>>

(***************************************************************************)
(* Strings                                                                 *)
(***************************************************************************)
Min(a, b) == IF a <= b THEN a ELSE b

\* the characters the regular expression class \s matches
IsSpace(c) == c \in {" ", "\n"}

\* the elements of a sequence given as a function, as a tuple
Array(f) == SubSeq(f, 1, Len(f))

\* the items that String.prototype.toLowerCase changes
LowerCased ==
    [Fa |-> "fa", FA |-> "fa", No |-> "no", This |-> "this", He |-> "he",
     In |-> "in", Topic |-> "topic", Topics |-> "topics", Graph |-> "graph",
     Big |-> "big", Tag |-> "tag"]
    @@ ("TRANSCRIPTION:" :> "transcription:") @@ ("Transcription:" :> "transcription:")
    @@ ("SUMMARY:" :> "summary:") @@ ("Summary:" :> "summary:")
    @@ ("TAGS:" :> "tags:") @@ ("Tags:" :> "tags:")
    @@ ("DIAGRAM:" :> "diagram:") @@ ("Diagram:" :> "diagram:")
    @@ ("[fence]MERMAID" :> "[fence]mermaid") @@ ("[fence]Mermaid" :> "[fence]mermaid")

\* String.prototype.toLowerCase on one item
LowerItem(c) == IF c \in DOMAIN LowerCased THEN LowerCased[c] ELSE c

toLowerCase(s) == Array([i \in 1..Len(s) |-> LowerItem(s[i])])

RECURSIVE TrimStart(_)
TrimStart(s) ==
    IF s # <<>> /\ IsSpace(Head(s)) THEN TrimStart(Tail(s)) ELSE s

RECURSIVE TrimEnd(_)
TrimEnd(s) ==
    IF s # <<>> /\ IsSpace(s[Len(s)]) THEN TrimEnd(SubSeq(s, 1, Len(s) - 1)) ELSE s

\* String.prototype.trim
trim(s) == TrimEnd(TrimStart(s))

\* String.prototype.split(/\s+/): the pieces of s between its maximal runs
\* of whitespace, one more piece than there are runs (a piece is empty where
\* s begins or ends with whitespace, and for the empty string).  starts and
\* ends hold the first and the last index of every run, in ascending order.
split(s) ==
    LET n == Len(s)
        RunStart(i) == IsSpace(s[i]) /\ (i = 1 \/ ~IsSpace(s[i - 1]))
        RunEnd(i) == IsSpace(s[i]) /\ (i = n \/ ~IsSpace(s[i + 1]))
        indices == Array([i \in 1..n |-> i])
        starts == SelectSeq(indices, RunStart)
        ends == SelectSeq(indices, RunEnd)
        runs == Len(starts)
    IN Array([k \in 1..(runs + 1) |->
                 SubSeq(s, IF k = 1 THEN 1 ELSE ends[k - 1] + 1,
                           IF k = runs + 1 THEN n ELSE starts[k] - 1)])

\* the elements lo..hi of arr joined by sep: the halves, with sep between
RECURSIVE JoinRange(_, _, _, _)
JoinRange(arr, lo, hi, sep) ==
    IF lo > hi THEN <<>>
    ELSE IF lo = hi THEN arr[lo]
    ELSE LET mid == (lo + hi) \div 2
         IN JoinRange(arr, lo, mid, sep) \o sep \o JoinRange(arr, mid + 1, hi, sep)

\* Array.prototype.join(sep)
join(arr, sep) == JoinRange(arr, 1, Len(arr), sep)

\* Array.prototype.slice(from, to) with 0-based, in-range bounds
slice(arr, from, to) == SubSeq(arr, from + 1, to)

\* the literal pushed at line 36
MARKER == <<"[repetitive", " ", "pattern", " ", "truncated]">>

(***************************************************************************)
(* Repetition scanner                                                      *)
(***************************************************************************)
\* words.slice(a, b).map(w => w.toLowerCase()).join(' ')
PatternStr(words, from, to) ==
    join([i \in 1..(to - from) |-> toLowerCase(words[from + i])], <<" ">>)

\* CountRepetitions whose comparison never succeeds
CountRepetitionsNoMatch(words, patternStr, patternLen, pos, repetitions) ==
    repetitions

\* the while loop of lines 73-83: the repetition count reached from pos
RECURSIVE CountRepetitions(_, _, _, _, _)
CountRepetitions(words, patternStr, patternLen, pos, repetitions) ==
    IF pos + patternLen <= Len(words)
       /\ PatternStr(words, pos, pos + patternLen) = patternStr
    THEN CountRepetitions(words, patternStr, patternLen, pos + patternLen,
                          repetitions + 1)
    ELSE repetitions

\* the inner loop of the scanner goes on from pos: lines 73-78
NextMatches(words, startIndex, patternLen, pos) ==
    /\ pos + patternLen <= Len(words)
    /\ PatternStr(words, pos, pos + patternLen)
       = PatternStr(words, startIndex, startIndex + patternLen)

\* ScanLengths trying the pattern lengths 1 to 5 only
RECURSIVE ScanLengthsTo5(_, _, _, _)
ScanLengthsTo5(words, startIndex, patternLen, bestPattern) ==
    IF patternLen <= Min(5, Len(words) - startIndex)
    THEN LET patternStr == PatternStr(words, startIndex, startIndex + patternLen)
             repetitions == CountRepetitions(words, patternStr, patternLen,
                                             startIndex + patternLen, 1)
             better == \/ repetitions > bestPattern.repetitions
                       \/ /\ repetitions = bestPattern.repetitions
                          /\ patternLen > bestPattern.patternLength
         IN ScanLengthsTo5(words, startIndex, patternLen + 1,
                           IF better
                           THEN [patternLength |-> patternLen,
                                 repetitions |-> repetitions]
                           ELSE bestPattern)
    ELSE bestPattern

\* one iteration of the for loop of lines 65-90, then the rest of the loop
\* ScanLengths keeping the first pattern on a tie of repetitions
RECURSIVE ScanLengthsFirstWins(_, _, _, _)
ScanLengthsFirstWins(words, startIndex, patternLen, bestPattern) ==
    IF patternLen <= Min(10, Len(words) - startIndex)
    THEN LET patternStr == PatternStr(words, startIndex, startIndex + patternLen)
             repetitions == CountRepetitions(words, patternStr, patternLen,
                                             startIndex + patternLen, 1)
         IN ScanLengthsFirstWins(words, startIndex, patternLen + 1,
                                 IF repetitions > bestPattern.repetitions
                                 THEN [patternLength |-> patternLen,
                                       repetitions |-> repetitions]
                                 ELSE bestPattern)
    ELSE bestPattern

RECURSIVE ScanLengths(_, _, _, _)
ScanLengths(words, startIndex, patternLen, bestPattern) ==
    IF patternLen <= Min(10, Len(words) - startIndex)
    THEN LET patternStr == PatternStr(words, startIndex, startIndex + patternLen)
             repetitions == CountRepetitions(words, patternStr, patternLen,
                                             startIndex + patternLen, 1)
             better == \/ repetitions > bestPattern.repetitions
                       \/ /\ repetitions = bestPattern.repetitions
                          /\ patternLen > bestPattern.patternLength
         IN ScanLengths(words, startIndex, patternLen + 1,
                        IF better
                        THEN [patternLength |-> patternLen,
                              repetitions |-> repetitions]
                        ELSE bestPattern)
    ELSE bestPattern

\* findLongestRepetitivePattern trying the pattern lengths 1 to 5 only
findLongestUpTo5(words, startIndex, maxReps) ==
    ScanLengthsTo5(words, startIndex, 1, [patternLength |-> 0, repetitions |-> 0])

\* findLongestRepetitivePattern starting from one repetition of one token
findLongestFromOne(words, startIndex, maxReps) ==
    ScanLengths(words, startIndex, 1, [patternLength |-> 1, repetitions |-> 1])

findLongestRepetitivePattern(words, startIndex, maxReps) ==
    ScanLengths(words, startIndex, 1, [patternLength |-> 0, repetitions |-> 0])

(***************************************************************************)
(* cleanRepetitiveText                                                     *)
(***************************************************************************)
\* PushPattern pushing the lower-cased projection of the pattern
RECURSIVE PushPatternLowered(_, _, _)
PushPatternLowered(cleanedWords, pattern, reps) ==
    IF reps > 0
    THEN PushPatternLowered(cleanedWords \o Array([j \in 1..Len(pattern) |->
                                                     toLowerCase(pattern[j])]),
                            pattern, reps - 1)
    ELSE cleanedWords

\* the for loop of lines 31-33: the pattern pushed maxReps times
RECURSIVE PushPattern(_, _, _)
PushPattern(cleanedWords, pattern, reps) ==
    IF reps > 0 THEN PushPattern(cleanedWords \o pattern, pattern, reps - 1)
    ELSE cleanedWords

\* CleanLoop leaving a run of one repetition more than the cap alone
RECURSIVE CleanLoopAboveCap(_, _, _, _)
CleanLoopAboveCap(words, i, cleanedWords, maxReps) ==
    IF i < Len(words)
    THEN LET bestMatch == findLongestRepetitivePattern(words, i, maxReps)
         IN IF bestMatch.patternLength > 0 /\ bestMatch.repetitions > maxReps + 1
            THEN LET pattern == slice(words, i, i + bestMatch.patternLength)
                 IN CleanLoopAboveCap(words,
                              i + bestMatch.patternLength * bestMatch.repetitions,
                              Append(PushPattern(cleanedWords, pattern, maxReps),
                                     MARKER),
                              maxReps)
            ELSE CleanLoopAboveCap(words, i + 1, Append(cleanedWords, words[i + 1]),
                                   maxReps)
    ELSE cleanedWords

\* CleanLoop truncating a run that is at the cap (>= for >)
RECURSIVE CleanLoopAtCap(_, _, _, _)
CleanLoopAtCap(words, i, cleanedWords, maxReps) ==
    IF i < Len(words)
    THEN LET bestMatch == findLongestRepetitivePattern(words, i, maxReps)
         IN IF bestMatch.patternLength > 0 /\ bestMatch.repetitions >= maxReps
            THEN LET pattern == slice(words, i, i + bestMatch.patternLength)
                 IN CleanLoopAtCap(words,
                              i + bestMatch.patternLength * bestMatch.repetitions,
                              Append(PushPattern(cleanedWords, pattern, maxReps),
                                     MARKER),
                              maxReps)
            ELSE CleanLoopAtCap(words, i + 1, Append(cleanedWords, words[i + 1]),
                                maxReps)
    ELSE cleanedWords

\* CleanLoop skipping only the repetitions it emitted (at least one)
RECURSIVE CleanLoopShortSkip(_, _, _, _)
CleanLoopShortSkip(words, i, cleanedWords, maxReps) ==
    IF i < Len(words)
    THEN LET bestMatch == findLongestRepetitivePattern(words, i, maxReps)
         IN IF bestMatch.patternLength > 0 /\ bestMatch.repetitions > maxReps
            THEN LET pattern == slice(words, i, i + bestMatch.patternLength)
                 IN CleanLoopShortSkip(words,
                              i + bestMatch.patternLength
                                    * (IF maxReps > 0 THEN maxReps ELSE 1),
                              Append(PushPattern(cleanedWords, pattern, maxReps),
                                     MARKER),
                              maxReps)
            ELSE CleanLoopShortSkip(words, i + 1,
                                    Append(cleanedWords, words[i + 1]), maxReps)
    ELSE cleanedWords

\* the while loop of lines 23-45
RECURSIVE CleanLoop(_, _, _, _)
CleanLoop(words, i, cleanedWords, maxReps) ==
    IF i < Len(words)
    THEN LET bestMatch == findLongestRepetitivePattern(words, i, maxReps)
         IN IF bestMatch.patternLength > 0 /\ bestMatch.repetitions > maxReps
            THEN LET pattern == slice(words, i, i + bestMatch.patternLength)
                 IN CleanLoop(words,
                              i + bestMatch.patternLength * bestMatch.repetitions,
                              Append(PushPattern(cleanedWords, pattern, maxReps),
                                     MARKER),
                              maxReps)
            ELSE CleanLoop(words, i + 1, Append(cleanedWords, words[i + 1]),
                           maxReps)
    ELSE cleanedWords

\* one iteration of CleanLoop advancing by the repetitions it emitted: by
\* nothing when the cap is 0
CleanIterationEmittedSkip(words, i, cleanedWords, maxReps) ==
    LET bestMatch == findLongestRepetitivePattern(words, i, maxReps)
    IN IF bestMatch.patternLength > 0 /\ bestMatch.repetitions > maxReps
       THEN [i |-> i + bestMatch.patternLength * maxReps,
             cleanedWords |->
                 Append(PushPattern(cleanedWords,
                                    slice(words, i, i + bestMatch.patternLength),
                                    maxReps),
                        MARKER)]
       ELSE [i |-> i + 1, cleanedWords |-> Append(cleanedWords, words[i + 1])]

\* one iteration of CleanLoop skipping only the repetitions it emitted
CleanIterationShortSkip(words, i, cleanedWords, maxReps) ==
    LET bestMatch == findLongestRepetitivePattern(words, i, maxReps)
    IN IF bestMatch.patternLength > 0 /\ bestMatch.repetitions > maxReps
       THEN [i |-> i + bestMatch.patternLength
                         * (IF maxReps > 0 THEN maxReps ELSE 1),
             cleanedWords |->
                 Append(PushPattern(cleanedWords,
                                    slice(words, i, i + bestMatch.patternLength),
                                    maxReps),
                        MARKER)]
       ELSE [i |-> i + 1, cleanedWords |-> Append(cleanedWords, words[i + 1])]

\* one iteration of the while loop of lines 23-45: the cursor and the
\* cleaned words after it
CleanIteration(words, i, cleanedWords, maxReps) ==
    LET bestMatch == findLongestRepetitivePattern(words, i, maxReps)
    IN IF bestMatch.patternLength > 0 /\ bestMatch.repetitions > maxReps
       THEN [i |-> i + bestMatch.patternLength * bestMatch.repetitions,
             cleanedWords |->
                 Append(PushPattern(cleanedWords,
                                    slice(words, i, i + bestMatch.patternLength),
                                    maxReps),
                        MARKER)]
       ELSE [i |-> i + 1, cleanedWords |-> Append(cleanedWords, words[i + 1])]

cleanRepetitiveText(t, maxReps) ==
    IF t = <<>> \/ trim(t) = <<>> THEN t
    ELSE join(CleanLoop(split(trim(t)), 0, <<>>, maxReps), <<" ">>)

(***************************************************************************)
(* detectHallucination                                                     *)
(***************************************************************************)
\* new Set(words.map(w => w.toLowerCase()))
UniqueWords(words) == {toLowerCase(words[i]) : i \in 1..Len(words)}

\* the while loop of lines 218-228; the result is repetitiveWords
RECURSIVE ScoreLoop(_, _, _)
ScoreLoop(words, i, repetitiveWords) ==
    IF i < Len(words)
    THEN LET pattern == findLongestRepetitivePattern(words, i, 2)
         IN IF pattern.repetitions > 2
            THEN ScoreLoop(words, i + pattern.patternLength * pattern.repetitions,
                           repetitiveWords
                             + pattern.patternLength * pattern.repetitions)
            ELSE ScoreLoop(words, i + 1, repetitiveWords)
    ELSE repetitiveWords

\* one iteration of the score loop counting the regions of 2 repetitions too
ScoreIterationFrom2(words, i, repetitiveWords) ==
    LET pattern == findLongestRepetitivePattern(words, i, 2)
    IN IF pattern.repetitions >= 2
       THEN [i |-> i + pattern.patternLength * pattern.repetitions,
             repetitiveWords |->
                 repetitiveWords + pattern.patternLength * pattern.repetitions]
       ELSE [i |-> i + 1, repetitiveWords |-> repetitiveWords]

\* one iteration of the while loop of lines 218-228
ScoreIteration(words, i, repetitiveWords) ==
    LET pattern == findLongestRepetitivePattern(words, i, 2)
    IN IF pattern.repetitions > 2
       THEN [i |-> i + pattern.patternLength * pattern.repetitions,
             repetitiveWords |->
                 repetitiveWords + pattern.patternLength * pattern.repetitions]
       ELSE [i |-> i + 1, repetitiveWords |-> repetitiveWords]

\* repetitiveWords / totalWords, kept as the fraction <<numerator, denominator>>
calculateRepetitiveScore(words) == <<ScoreLoop(words, 0, 0), Len(words)>>

\* the for loops of lines 243-250 from start index i on: each of the
\* Min(5, words.length - i) iterations of the inner loop calls the scanner
\* with the same arguments, so the inner loop leaves the larger of maxReps
\* and that one result
RECURSIVE MaxLoop(_, _, _)
MaxLoop(words, i, maxReps) ==
    IF i < Len(words)
    THEN LET pattern == findLongestRepetitivePattern(words, i, 1)
         IN IF 1 <= Min(5, Len(words) - i) /\ pattern.repetitions > maxReps
            THEN MaxLoop(words, i + 1, pattern.repetitions)
            ELSE MaxLoop(words, i + 1, maxReps)
    ELSE maxReps

\* one iteration of the outer for loop of lines 243-250: maxRepetitions
\* after it
MaxIteration(words, i, maxReps) ==
    LET pattern == findLongestRepetitivePattern(words, i, 1)
    IN IF 1 <= Min(5, Len(words) - i) /\ pattern.repetitions > maxReps
       THEN pattern.repetitions
       ELSE maxReps

findMaxConsecutivePatternRepetitions(words) == MaxLoop(words, 0, 0)

\* a threshold is the fraction <<numerator, denominator>>, denominator > 0;
\* a / b < n / d is compared as a * d < n * b
DEFAULT_THRESHOLD == <<3, 10>>

\* detectHallucination with the short-text test off by one (< 9)
detectHallucinationShort9(t, th) ==
    IF t = <<>> \/ trim(t) = <<>> THEN FALSE
    ELSE LET words == split(trim(t))
         IN IF Len(words) < 9 THEN FALSE
            ELSE IF Cardinality(UniqueWords(words)) * th[2] < th[1] * Len(words)
                 THEN TRUE
            ELSE LET repetitiveScore == calculateRepetitiveScore(words)
                 IN IF 2 * repetitiveScore[1] > repetitiveScore[2] THEN TRUE
                    ELSE IF findMaxConsecutivePatternRepetitions(words) > 8
                         THEN TRUE
                         ELSE FALSE

\* detectHallucination with signal 3 tripping at 8 repetitions (>= for >)
detectHallucinationAt8(t, th) ==
    IF t = <<>> \/ trim(t) = <<>> THEN FALSE
    ELSE LET words == split(trim(t))
         IN IF Len(words) < 10 THEN FALSE
            ELSE IF Cardinality(UniqueWords(words)) * th[2] < th[1] * Len(words)
                 THEN TRUE
            ELSE LET repetitiveScore == calculateRepetitiveScore(words)
                 IN IF 2 * repetitiveScore[1] > repetitiveScore[2] THEN TRUE
                    ELSE IF findMaxConsecutivePatternRepetitions(words) >= 8
                         THEN TRUE
                         ELSE FALSE

detectHallucination(t, th) ==
    IF t = <<>> \/ trim(t) = <<>> THEN FALSE
    ELSE LET words == split(trim(t))
         IN IF Len(words) < 10 THEN FALSE
            ELSE IF Cardinality(UniqueWords(words)) * th[2] < th[1] * Len(words)
                 THEN TRUE
            ELSE LET repetitiveScore == calculateRepetitiveScore(words)
                 IN IF 2 * repetitiveScore[1] > repetitiveScore[2] THEN TRUE
                    ELSE IF findMaxConsecutivePatternRepetitions(words) > 8
                         THEN TRUE
                         ELSE FALSE

(***************************************************************************)
(* cleanTranscription                                                      *)
(***************************************************************************)
\* cleanTranscription judging the cleaned text instead of the original
cleanTranscriptionJudgeCleaned(t) ==
    IF t = <<>> \/ trim(t) = <<>>
    THEN [cleanedText |-> t, hadHallucination |-> FALSE]
    ELSE [cleanedText |-> cleanRepetitiveText(t, 3),
          hadHallucination |->
              detectHallucination(cleanRepetitiveText(t, 3), DEFAULT_THRESHOLD)]

cleanTranscription(t) ==
    IF t = <<>> \/ trim(t) = <<>>
    THEN [cleanedText |-> t, hadHallucination |-> FALSE]
    ELSE [cleanedText |-> cleanRepetitiveText(t, 3),
          hadHallucination |-> detectHallucination(t, DEFAULT_THRESHOLD)]

(***************************************************************************)
(* The response parser                                                     *)
(***************************************************************************)
\* an optional field of the parsed response
undefined == [defined |-> FALSE, value |-> <<>>]
Some(v) == [defined |-> TRUE, value |-> v]

\* the result of String.prototype.match: null, or the match with its group 1
NoMatch == [matched |-> FALSE, group |-> <<>>]

\* the least element of a non-empty set of indices
Least(S) == CHOOSE i \in S : \A j \in S : i <= j

\* /HEADER:\s*([\s\S]*?)(?=\n..\n(?:STOPS):|$)/i on s: the leftmost header,
\* the whitespace after it, then the shortest text that ends before gap
\* newlines followed by one of the stop headers, or at the end of s
MatchSection(s, header, stops, gap) ==
    LET n == Len(s)
        heads == {i \in 1..n : LowerItem(s[i]) = header}
    IN IF heads = {}
       THEN NoMatch
       ELSE LET h == Least(heads)
                start == Least({i \in (h + 1)..(n + 1) : i = n + 1 \/ ~IsSpace(s[i])})
                Ahead(q) ==
                    \/ q = n + 1
                    \/ /\ q + gap <= n
                       /\ \A j \in 0..(gap - 1) : s[q + j] = "\n"
                       /\ LowerItem(s[q + gap]) \in stops
                end == Least({q \in start..(n + 1) : Ahead(q)})
            IN [matched |-> TRUE, group |-> SubSeq(s, start, end - 1)]

\* String.prototype.split(/[,\n]/)
splitTags(s) ==
    LET n == Len(s)
        IsSeparator(i) == s[i] \in {",", "\n"}
        indices == Array([i \in 1..n |-> i])
        seps == SelectSeq(indices, IsSeparator)
        count == Len(seps)
    IN Array([k \in 1..(count + 1) |->
                 SubSeq(s, IF k = 1 THEN 1 ELSE seps[k - 1] + 1,
                           IF k = count + 1 THEN n ELSE seps[k] - 1)])

\* tag.trim().replace(/^[-*B]\s*/, '').replace(/^#/, ''), where B is the
\* bullet character "[bullet]"
rawTag(tag) ==
    LET trimmed == trim(tag)
        unbulleted == IF trimmed # <<>> /\ trimmed[1] \in {"-", "*", "[bullet]"}
                      THEN TrimStart(Tail(trimmed))
                      ELSE trimmed
    IN IF unbulleted # <<>> /\ unbulleted[1] = "#"
       THEN Tail(unbulleted)
       ELSE unbulleted

NonEmpty(s) == Len(s) > 0

\* the 26 characters of the class removed at formatters.ts line 17
Blacklist ==
    {".", "&", "@", "$", "%", "^", "*", "+", "=", "<", ">", "?", "!", "|",
     "\\", "\"", "[backquote]", "'", ";", "{", "}", "[", "]", "(", ")", "~"}

\* formatTag without the replacement of runs of hyphens by one hyphen
formatTagNoCollapse(tag) ==
    LET NotBlacklisted(c) == c \notin Blacklist
        kept == SelectSeq(toLowerCase(tag), NotBlacklisted)
        hyphenated == join(split(kept), <<"-">>)
        headless == IF hyphenated # <<>> /\ hyphenated[1] = "-"
                    THEN Tail(hyphenated)
                    ELSE hyphenated
        bare == IF headless # <<>> /\ headless[Len(headless)] = "-"
                THEN SubSeq(headless, 1, Len(headless) - 1)
                ELSE headless
    IN trim(bare)

\* one tag of formatTagsAsObsidianTags
formatTag(tag) ==
    LET NotBlacklisted(c) == c \notin Blacklist
        kept == SelectSeq(toLowerCase(tag), NotBlacklisted)
        hyphenated == join(split(kept), <<"-">>)
        NotRepeated(i) == ~(hyphenated[i] = "-" /\ i > 1 /\ hyphenated[i - 1] = "-")
        single == SelectSeq(Array([i \in 1..Len(hyphenated) |-> i]), NotRepeated)
        collapsed == Array([k \in 1..Len(single) |-> hyphenated[single[k]]])
        headless == IF collapsed # <<>> /\ collapsed[1] = "-"
                    THEN Tail(collapsed)
                    ELSE collapsed
        bare == IF headless # <<>> /\ headless[Len(headless)] = "-"
                THEN SubSeq(headless, 1, Len(headless) - 1)
                ELSE headless
    IN trim(bare)

formatTagsAsObsidianTags(tags) ==
    SelectSeq(Array([i \in 1..Len(tags) |-> formatTag(tags[i])]), NonEmpty)

\* the tags of a TAGS section
parseTags(group) ==
    LET pieces == splitTags(trim(group))
        rawTags == SelectSeq(Array([i \in 1..Len(pieces) |-> rawTag(pieces[i])]),
                             NonEmpty)
    IN formatTagsAsObsidianTags(slice(rawTags, 0, Min(5, Len(rawTags))))

\* .trim().replace(/^[fence]mermaid\s*/i, '').replace(/[fence]\s*$/, '').trim()
parseDiagram(group) ==
    LET trimmed == trim(group)
        opened == IF trimmed # <<>> /\ LowerItem(trimmed[1]) = "[fence]mermaid"
                  THEN TrimStart(Tail(trimmed))
                  ELSE trimmed
        ended == TrimEnd(opened)
        closed == IF ended # <<>> /\ ended[Len(ended)] = "[fence]"
                  THEN SubSeq(ended, 1, Len(ended) - 1)
                  ELSE opened
    IN trim(closed)

\* parseGeneralResponse searching for the SUMMARY section in simple mode too
parseGeneralResponseSummaryAlways(response, features) ==
    LET summaryMatch == MatchSection(response, "summary:", {"tags:", "diagram:"}, 2)
    IN [transcription |-> response,
        summary |->
            IF summaryMatch.matched
            THEN Some(trim(summaryMatch.group))
            ELSE undefined,
        tags |-> undefined, diagram |-> undefined]

parseGeneralResponse(response, features) ==
    IF ~features
    THEN [transcription |-> response, summary |-> undefined,
          tags |-> undefined, diagram |-> undefined]
    ELSE LET transcriptionMatch ==
                 MatchSection(response, "transcription:",
                              {"summary:", "tags:", "diagram:"}, 2)
             summaryMatch ==
                 MatchSection(response, "summary:", {"tags:", "diagram:"}, 2)
             tagsMatch == MatchSection(response, "tags:", {"diagram:"}, 2)
             diagramMatch == MatchSection(response, "diagram:", {}, 2)
         IN [transcription |->
                 IF transcriptionMatch.matched /\ trim(transcriptionMatch.group) # <<>>
                 THEN trim(transcriptionMatch.group)
                 ELSE response,
             summary |->
                 IF summaryMatch.matched
                 THEN Some(trim(summaryMatch.group))
                 ELSE undefined,
             tags |->
                 IF tagsMatch.matched
                 THEN Some(parseTags(tagsMatch.group))
                 ELSE undefined,
             diagram |->
                 IF diagramMatch.matched
                 THEN Some(parseDiagram(diagramMatch.group))
                 ELSE undefined]

\* the result has no transcription field
parseClaudeResponse(response) ==
    LET summaryMatch == MatchSection(response, "summary:", {"tags:", "diagram:"}, 1)
        tagsMatch == MatchSection(response, "tags:", {"diagram:"}, 1)
        diagramMatch == MatchSection(response, "diagram:", {}, 1)
    IN [summary |->
            IF summaryMatch.matched
            THEN Some(trim(summaryMatch.group))
            ELSE undefined,
        tags |->
            IF tagsMatch.matched
            THEN Some(parseTags(tagsMatch.group))
            ELSE undefined,
        diagram |->
            IF diagramMatch.matched
            THEN Some(parseDiagram(diagramMatch.group))
            ELSE undefined]

(***************************************************************************)
(* The providers                                                           *)
(***************************************************************************)
\* '\n\n*[Note: Some repetitive content was automatically cleaned from this
\* transcription]*'
NOTE ==
    <<"\n", "\n", "*[Note:", " ", "Some", " ", "repetitive", " ", "content", " ",
      "was", " ", "automatically", " ", "cleaned", " ", "from", " ", "this", " ",
      "transcription]*">>

\* the note appended whatever cleanTranscription reported
appendNoteAlways(transcription, hadHalluc) == transcription \o NOTE

\* if (hadHallucination) transcription += NOTE
appendNote(transcription, hadHalluc) ==
    IF hadHalluc THEN transcription \o NOTE ELSE transcription

\* transcribeWithOpenAI from data.text on: the text is cleaned and noted,
\* and the extras parsed from the chat response are spread behind it
transcribeWithOpenAI(dataText, responseContent, features) ==
    LET cleaned == cleanTranscription(dataText)
        transcription == appendNote(cleaned.cleanedText, cleaned.hadHallucination)
        extras == parseClaudeResponse(responseContent)
    IN IF features
       THEN [transcription |-> transcription, summary |-> extras.summary,
             tags |-> extras.tags, diagram |-> extras.diagram]
       ELSE [transcription |-> transcription, summary |-> undefined,
             tags |-> undefined, diagram |-> undefined]

\* transcribeWithGemini from the response text on: the parsed transcription,
\* if it is not empty, is cleaned and noted
transcribeWithGemini(response, features) ==
    LET parsedResult == parseGeneralResponse(response, features)
    IN IF parsedResult.transcription # <<>>
       THEN LET cleaned == cleanTranscription(parsedResult.transcription)
            IN [parsedResult EXCEPT
                   !.transcription =
                       appendNote(cleaned.cleanedText, cleaned.hadHallucination)]
       ELSE parsedResult

(***************************************************************************)
(* The plugin                                                              *)
(***************************************************************************)
\* A line of an editor is the record of what it holds: kind is "media" (an
\* audio embed of the file arg), "text", "blank", one of the five lines of a
\* progress block ("start" holds the START marker, "info", "header",
\* "status" of the stage arg, "end" holds the END marker), "output" or
\* "error". by is the invocation that wrote the line (0: the author of the
\* note); origin is the number of an original line, and for a written line
\* the invocation that inserted the progress block at this place.
Written(kind, arg, by, origin) ==
    [kind |-> kind, arg |-> arg, by |-> by, origin |-> origin]

null == "<null>"

\* extractMediaFileName(line): the file name of the first audio embed
extractMediaFileName(line) == IF line.kind = "media" THEN line.arg ELSE null

MB == 1024 * 1024

\* what metadataCache.getFirstLinkpathDest resolves a name to: a file of
\* some size, a folder, or nothing
Vault ==
    [name \in {"a.mp3", "mid.mp3", "dir.mp3", "gone.mp3"} |->
        CASE name = "a.mp3" -> [found |-> TRUE, isTFile |-> TRUE, size |-> 20 * MB]
          [] name = "mid.mp3" -> [found |-> TRUE, isTFile |-> TRUE, size |-> 20 * MB + 1]
          [] name = "dir.mp3" -> [found |-> TRUE, isTFile |-> FALSE, size |-> 0]
          [] name = "gone.mp3" -> [found |-> FALSE, isTFile |-> FALSE, size |-> 0]]

getApiKeyForProvider(p, s) == IF p = "google" THEN s.apiKey ELSE s.openaiApiKey

\* validateProviderRequirements(provider, settings).isValid, the model of
\* every provider being one of its list
validateProviderRequirements(p, s) == getApiKeyForProvider(p, s)

\* modelConfig.fileSizeLimitMB of the models of a provider
fileSizeLimitMB(p) == IF p = "google" THEN 20 ELSE 25

\* validateFileSizeForModel accepting every size
validateFileSizeForModelAlways(size, p) == TRUE

\* validateFileSizeForModel(size, provider, settings).isValid
validateFileSizeForModel(size, p) == ~(size > fileSizeLimitMB(p) * MB)

\* the five lines of a progress block
BlockLines(by, origin, stage) ==
    <<Written("start", "", by, origin), Written("info", "", by, origin),
      Written("header", "", by, origin), Written("status", stage, by, origin),
      Written("end", "", by, origin)>>

\* formatTranscriptionOutput(result, settings) without its leading
\* newlines: a heading and what follows it, each line ended by a newline
OutputLines(by, origin) ==
    <<Written("output", "heading", by, origin), Written("output", "body", by, origin)>>

\* the error callout
ErrorLines(by, origin) ==
    <<Written("error", "callout", by, origin), Written("error", "message", by, origin)>>

NoRange == [from |-> 0, to |-> 0]

\* findProgressBlockRange(editor): the lines from the first START line to
\* the first END line behind it (to the last END line before it, if none
\* is behind it), numbered from 1
findProgressBlockRange(doc) ==
    LET starts == {k \in 1..Len(doc) : doc[k].kind = "start"}
        ends == {k \in 1..Len(doc) : doc[k].kind = "end"}
    IN IF starts = {} \/ ends = {} THEN NoRange
       ELSE LET startLine == Least(starts)
                behind == {k \in ends : k > startLine}
            IN [from |-> startLine,
                to |-> IF behind # {} THEN Least(behind)
                       ELSE CHOOSE k \in ends : \A m \in ends : m <= k]

\* editor.replaceRange(lines, range.from, range.to): the lines of the range
\* give way to the new lines; the range ends at the start of the line
\* behind it, or at the end of the last line
replaceRange(doc, range, lines) ==
    IF range.to < range.from THEN doc
    ELSE SubSeq(doc, 1, range.from - 1) \o lines
         \o (IF range.to = Len(doc) THEN <<Written("blank", "", lines[1].by, lines[1].origin)>>
             ELSE SubSeq(doc, range.to + 1, Len(doc)))

\* editor.replaceRange(progressBlock, insertPosition): two newlines, the
\* block and a newline enter at the start of the line behind the cursor
\* line, or at the end of the last line
insertProgressBlock(doc, cursorLine, by) ==
    LET blank == Written("blank", "", by, by)
    IN IF cursorLine < Len(doc)
       THEN SubSeq(doc, 1, cursorLine) \o <<blank, blank>>
            \o BlockLines(by, by, "preparing") \o SubSeq(doc, cursorLine + 1, Len(doc))
       ELSE doc \o <<blank>> \o BlockLines(by, by, "preparing") \o <<blank>>

\* editor.replaceRange(normalizedOutput, insertPosition): the output enters
\* at the start of the line behind the cursor line; at the end of the last
\* line its heading joins that line
insertOutput(doc, cursorLine, by) ==
    IF cursorLine < Len(doc)
    THEN SubSeq(doc, 1, cursorLine) \o OutputLines(by, by)
         \o SubSeq(doc, cursorLine + 1, Len(doc))
    ELSE doc \o <<Written("output", "body", by, by), Written("blank", "", by, by)>>

\* updateProgressBlock(editor, headerLine, statusLine)
updateProgressBlock(doc, by, stage) ==
    LET range == findProgressBlockRange(doc)
    IN IF range = NoRange THEN doc
       ELSE replaceRange(doc, range, BlockLines(by, doc[range.from].origin, stage))

\* the notice of the first step of lines 51-83 that fails on the line, or
\* null if none fails
Refusal(line, s) ==
    LET mediaFileName == extractMediaFileName(line)
    IN IF mediaFileName = null THEN "no audio file link"
       ELSE IF ~validateProviderRequirements(s.provider, s) THEN "set the API key"
       ELSE IF ~Vault[mediaFileName].found THEN "file not found"
       ELSE IF ~Vault[mediaFileName].isTFile THEN "invalid file type"
       ELSE IF ~validateFileSizeForModel(Vault[mediaFileName].size, s.provider)
            THEN "file size exceeds limit"
       ELSE null

(***************************************************************************)
(* Inputs                                                                  *)
(***************************************************************************)
MaxLen == 7         \* longest exhaustively enumerated token sequence
MaxPadded == 3      \* longest token sequence also laid out with padding
MaxCap == 3         \* largest maxRepetitions argument
MaxPre == 4         \* most filler tokens before a run
MaxSuf == 5         \* most filler tokens after a run
MaxPatLen == 2      \* longest pattern of a generated run
MaxRunTokens == 21  \* most tokens in a generated run
MaxBodyWords == 2   \* most words in a generated section text
MaxSections == 3    \* most sections in a response of freely ordered sections
MaxCandidates == 6  \* most comma-separated candidates in a generated tag line
MaxTagItems == 4    \* most items in a generated raw tag
MaxTags == 2        \* most raw tags in a generated array of sample tags
MaxDiagramItems == 4 \* most items in a generated DIAGRAM section
MaxScanLen == 5     \* longest exhaustively enumerated token sequence to scan
MaxStepLen == 5     \* longest exhaustively enumerated token sequence to step through
MaxLines == 2       \* most lines of the note before the first command
MaxInvocations == 2 \* most invocations of the command

Vocab == {"fa", "Fa", "no"}
FillerBefore == <<"This", "is", "a", "test", "of", "it">>
FillerAfter == <<"and", "walked", "away", "he", "said", "so", "then">>
Thresholds == {<<0, 1>>, DEFAULT_THRESHOLD, <<1, 1>>}
None == <<"<none>">>

Word(c) == <<c>>
WordSeqs(V, n) == UNION {[1..m -> {Word(c) : c \in V}] : m \in 0..n}

Repeat(pattern, r) ==
    Array([i \in 1..(r * Len(pattern)) |-> pattern[((i - 1) % Len(pattern)) + 1]])

Prefix(filler, n) == Array([i \in 1..Min(n, Len(filler)) |-> Word(filler[i])])

\* a layout is the whitespace before, between and after the tokens
PlainLayout == [lead |-> <<>>, gap |-> <<" ">>, trail |-> <<>>]
PaddedLayout == [lead |-> <<" ">>, gap |-> <<"\n", " ">>, trail |-> <<"\n">>]
Layouts == {PlainLayout, PaddedLayout}
Render(words, layout) == layout.lead \o join(words, layout.gap) \o layout.trail

\* every token sequence of at most MaxLen tokens, the shortest ones also
\* with leading, trailing and repeated whitespace
ShortTexts ==
    {Render(w, PlainLayout) : w \in WordSeqs(Vocab, MaxLen)}
    \cup {Render(w, PaddedLayout) : w \in WordSeqs(Vocab, MaxPadded)}

\* a run of r repetitions of a pattern, at most MaxRunTokens tokens long,
\* after no filler or MaxPre filler tokens and before no filler, MaxSuf - 1 or
\* MaxSuf filler tokens
Runs ==
    {x \in {Repeat(pat, r) : pat \in WordSeqs(Vocab, MaxPatLen) \ {<<>>},
                             r \in 0..MaxRunTokens} : Len(x) <= MaxRunTokens}

RunWords ==
    {Prefix(FillerBefore, p) \o run \o Prefix(FillerAfter, s) :
        p \in {0, MaxPre}, s \in {0, MaxSuf - 1, MaxSuf}, run \in Runs}

\* the texts below the ten-token threshold also in the padded layout
RunTexts ==
    {Render(w, PlainLayout) : w \in RunWords}
    \cup {Render(w, PaddedLayout) : w \in {x \in RunWords : Len(x) < 10}}

\* the texts of the test suite and of the specification's scenarios, and
\* repetitions of longer patterns than the enumerations hold
Words(items) == Array([i \in 1..Len(items) |-> Word(items[i])])
PreservedText == Words(<<"He", "said", "no", "no", "no", "and", "walked", "away">>)
NestedRun == Repeat(Words(<<"fa", "fa", "fa", "fa", "no">>), 4)
LongPattern == Prefix(FillerBefore, 6) \o Prefix(FillerAfter, 4)
TestRun == Prefix(FillerBefore, 4) \o Repeat(Words(<<"fa">>), 20)
ShortScenarios ==
    {Render(w, PlainLayout) : w \in {PreservedText, NestedRun, TestRun}}
RunScenarios ==
    {Render(Repeat(LongPattern, r), PlainLayout) : r \in {8, 9}}

\* a pattern of 11 tokens, one more than the scanner tries
OverlongPattern == LongPattern \o Words(<<"fa">>)

\* the texts to scan: every short token sequence, and patterns of 5, 10 and
\* 11 tokens repeated
ScanTexts ==
    {Render(w, PlainLayout) : w \in WordSeqs(Vocab, MaxScanLen)}
    \cup {Render(w, PlainLayout) :
             w \in {NestedRun, Repeat(LongPattern, 2), Repeat(OverlongPattern, 2)}}

\* nine repetitions of a word before ten words that differ: less than half
\* of the text is repeated, and one pattern more than 8 times
LongRun == Repeat(Words(<<"fa">>), 9) \o LongPattern

\* the texts whose loops are run one iteration at a time: the empty and a
\* blank text, every short token sequence, and two texts of the tests
StepTexts ==
    {<<>>, <<" ">>}
    \cup {Render(w, PlainLayout) : w \in WordSeqs(Vocab, MaxStepLen) \ {<<>>}}
    \cup {Render(w, PlainLayout) :
             w \in {PreservedText, NestedRun, LongPattern, TestRun, LongRun}}

\* the lines an author writes
AuthorLines ==
    {[kind |-> "text", arg |-> ""]}
    \cup {[kind |-> "media", arg |-> name] : name \in DOMAIN Vault}

\* the notes of at most MaxLines lines
Notes ==
    UNION {{Array([k \in 1..n |-> Written(f[k].kind, f[k].arg, 0, k)]) :
              f \in [1..n -> AuthorLines]} : n \in 1..MaxLines}

\* the other note
OtherNote == <<Written("media", "a.mp3", 0, 1), Written("text", "", 0, 2)>>

Editors == {"note", "other"}
Invocations == 1..MaxInvocations
Stages == {"uploading", "cleaning"}

\* six of ten tokens are a pattern of two repeated 3 times
HalfRepeated == Repeat(Words(<<"Fa", "no">>), 3) \o Prefix(FillerAfter, 4)

\* the texts the providers receive: none, short ones with and without a
\* run, and texts of ten tokens and more
ProviderTexts ==
    {<<>>}
    \cup {Render(w, PlainLayout) :
             w \in {Words(<<"fa", "no">>), Repeat(Words(<<"fa">>), 5),
                    PreservedText, LongPattern, HalfRepeated, TestRun, LongRun}}

\* the responses around a text: the text alone, the text in a
\* TRANSCRIPTION section before other sections, an empty TRANSCRIPTION
\* section, and sections without a transcription
ProviderResponses(t) ==
    LET extras == <<"SUMMARY:", "\n", "Big", " ", "in", "\n", "\n",
                    "TAGS:", "\n", "Topic", ",", " ", "tag">>
    IN {t,
        <<"TRANSCRIPTION:", "\n">> \o t \o <<"\n", "\n">> \o extras,
        <<"TRANSCRIPTION:", "\n", "\n", "\n">> \o extras,
        extras}

\* the words of the section texts: a plain word and the two words followed
\* by a colon that spell a header
SectionVocab == {"note", "summary:", "tags:"}

\* the section texts: 1..MaxBodyWords words, one space or one newline apart
SectionTexts ==
    {join(w, <<sep>>) : w \in WordSeqs(SectionVocab, MaxBodyWords) \ {<<>>},
                        sep \in {" ", "\n"}}

\* the diagram texts
DiagramTexts == {<<"graph">>, <<"graph", " ", "TD", "\n", " ", " ", "A">>}

\* the line 'a, b, c'
TagLine == <<"a", ",", " ", "b", ",", " ", "c">>

\* the response with the four sections in the documented layout
Blob(X, Y, tagLine, Z) ==
    <<"TRANSCRIPTION:", "\n">> \o X \o <<"\n", "\n", "SUMMARY:", "\n">> \o Y
    \o <<"\n", "\n", "TAGS:", "\n">> \o tagLine
    \o <<"\n", "\n", "DIAGRAM:", "\n">> \o Z

\* the responses in the documented layout, with the texts they were built of
Blobs ==
    {[X |-> X, Y |-> Y, Z |-> Z, blob |-> Blob(X, Y, TagLine, Z)] :
        X \in SectionTexts, Y \in SectionTexts, Z \in DiagramTexts}

Responses == {b.blob : b \in Blobs}

\* the four kinds of section, with their headers as the prompts write them
Kinds == {"transcription", "summary", "tags", "diagram"}
HeaderOf ==
    [transcription |-> "TRANSCRIPTION:", summary |-> "SUMMARY:",
     tags |-> "TAGS:", diagram |-> "DIAGRAM:"]

\* the text of each kind of section in the responses of freely ordered sections
BodyOf ==
    [transcription |-> <<"spoken", " ", "words">>, summary |-> <<"brief">>,
     tags |-> <<"a", ",", " ", "b">>, diagram |-> <<"graph", " ", "TD">>]

\* the orders of 1..MaxSections sections of different kinds
SectionOrders ==
    {o \in UNION {[1..n -> Kinds] : n \in 1..MaxSections} :
        \A i, j \in DOMAIN o : i # j => o[i] # o[j]}

\* a header, and its text on the next line unless the section is empty
Section(kind, filled) ==
    IF filled THEN <<HeaderOf[kind], "\n">> \o BodyOf[kind] ELSE <<HeaderOf[kind]>>

\* the responses of sections in any order, one newline or a blank line
\* apart, every section filled or empty, with what they were built of
SectionResponses ==
    UNION {{[order |-> o, filled |-> f, sep |-> sep,
             response |-> join(Array([i \in DOMAIN o |-> Section(o[i], f[i])]), sep)] :
                f \in [DOMAIN o -> BOOLEAN], sep \in {<<"\n">>, <<"\n", "\n">>}} :
           o \in SectionOrders}

\* the field that a filled section of each kind stands for
FieldOf ==
    [transcription |-> BodyOf.transcription, summary |-> Some(BodyOf.summary),
     tags |-> Some(<<Word("a"), Word("b")>>), diagram |-> Some(BodyOf.diagram)]

\* the word of the candidate at each place of a tag line
TagWords == <<"t1", "t2", "t3", "t4", "t5", "t6", "t7", "t8">>

\* a candidate is its word, or punctuation that normalizes to nothing, or
\* nothing at all
CandidateKinds == {"word", "punctuation", "nothing"}
Candidate(kind, i) ==
    IF kind = "word" THEN <<TagWords[i]>>
    ELSE IF kind = "punctuation" THEN <<"!">>
    ELSE <<>>

\* the TAGS sections of 0..MaxCandidates comma-separated candidates, with
\* the kinds they were built of
TagLines ==
    UNION {{[kinds |-> k,
             response |->
                 <<"TAGS:", "\n">>
                 \o join(Array([i \in 1..n |-> Candidate(k[i], i)]), <<",", " ">>)] :
                k \in [1..n -> CandidateKinds]} :
           n \in 0..Min(MaxCandidates, Len(TagWords))}

\* what stands before the word of a decorated candidate: nothing, one or
\* two '#', a bullet, a bullet and a '#'
Decorations ==
    {<<>>, <<"#">>, <<"#", "#">>, <<"-", " ">>, <<"-", " ", "#">>,
     <<"*", " ", "#">>, <<"[bullet]", " ", "#", "#">>}

\* the TAGS sections of one or two decorated candidates, one on a line or
\* comma-separated
DecoratedLines ==
    {<<"TAGS:", "\n">> \o d \o <<"Topic">> : d \in Decorations}
    \cup {<<"TAGS:", "\n">> \o d \o <<"Topic">> \o sep \o e \o <<"note">> :
             d \in Decorations, e \in Decorations,
             sep \in {<<",", " ">>, <<"\n">>}}

\* the items of the raw tags: a capitalised word, an accented word, an
\* emoji, a space, a hyphen and a blacklisted character
TagItems == {"Tag", "caf[e-acute]", "[emoji]", " ", "-", "!"}

\* the raw tags of 0..MaxTagItems items
RawTags == UNION {[1..n -> TagItems] : n \in 0..MaxTagItems}

\* raw tags as the tests write them, and ones that normalize to nothing
SampleTags ==
    {<<"Big", " ", "Tag">>, <<" ", "Tag", " ">>, <<"!">>, <<" ", "-", " ">>,
     <<"caf[e-acute]", " ", "&", " ", "Tag">>}

\* the arrays of one raw tag, and of 0..MaxTags sample tags
TagArrays ==
    {<<t>> : t \in RawTags} \cup UNION {[1..n -> SampleTags] : n \in 0..MaxTags}

\* the items of the DIAGRAM sections: the opening fence in two letter
\* cases, the closing fence, a word of the diagram and the newline
DiagramItems == {"[fence]mermaid", "[fence]Mermaid", "[fence]", "graph", "\n"}

\* the responses that are a DIAGRAM section of 0..MaxDiagramItems items
DiagramResponses ==
    {<<"DIAGRAM:", "\n">> \o d :
        d \in UNION {[1..n -> DiagramItems] : n \in 0..MaxDiagramItems}}

(***************************************************************************)
(* The calls                                                               *)
(***************************************************************************)
\* no tags have been formatted, no scan has been made
Unused ==
    /\ inputTags = <<>>
    /\ formattedTags = <<>>
    /\ scanStart = 0
    /\ scanned = [patternLength |-> 0, repetitions |-> 0]

\* no response has been parsed
NotParsed ==
    [transcription |-> <<>>, summary |-> undefined, tags |-> undefined,
     diagram |-> undefined]

\* the plugin before onload
Unloaded ==
    /\ docs = [e \in Editors |-> <<>>]
    /\ activeView = "none"
    /\ settings = [provider |-> "google", apiKey |-> FALSE, openaiApiKey |-> FALSE]
    /\ invocations = [i \in Invocations |-> [pc |-> "idle", editor |-> "none",
                                              cursorLine |-> 0, file |-> null,
                                              media |-> 0]]
    /\ notices = {}
    /\ uploads = {}
    /\ statusEl = ""

Fresh ==
    /\ pc = "ready"
    /\ provider = "none"
    /\ transcriptionResult = NotParsed
    /\ maxRepetitions = 3
    /\ threshold = DEFAULT_THRESHOLD
    /\ cleanedText = None
    /\ recleanedText = None
    /\ hadHallucination = FALSE
    /\ cursor = 0
    /\ emitted = <<>>
    /\ counted = 0
    /\ runPos = 0
    /\ runLen = 0
    /\ runCount = 0

Start == Fresh /\ Unloaded

Idle == responseText = <<>> /\ includeFeatures = FALSE /\ parsed = NotParsed

Init == text \in ShortTexts \cup ShortScenarios /\ Start /\ Idle /\ Unused

InitRuns == text \in RunTexts \cup RunScenarios /\ Start /\ Idle /\ Unused

InitParse ==
    /\ text = <<>>
    /\ Start
    /\ responseText \in Responses
    /\ includeFeatures \in BOOLEAN
    /\ parsed = NotParsed
    /\ Unused

InitSections ==
    /\ text = <<>>
    /\ Start
    /\ responseText \in {r.response : r \in SectionResponses}
    /\ includeFeatures \in BOOLEAN
    /\ parsed = NotParsed
    /\ Unused

InitTags ==
    /\ text = <<>>
    /\ Start
    /\ responseText \in {l.response : l \in TagLines} \cup DecoratedLines
    /\ includeFeatures = TRUE
    /\ parsed = NotParsed
    /\ Unused

InitScan ==
    /\ text \in ScanTexts
    /\ Start
    /\ Idle
    /\ Unused

InitSteps ==
    /\ text \in StepTexts
    /\ Start
    /\ Idle
    /\ Unused

InitProviders ==
    /\ text \in ProviderTexts
    /\ Start
    /\ responseText \in ProviderResponses(text)
    /\ includeFeatures \in BOOLEAN
    /\ parsed = NotParsed
    /\ Unused

\* after onload: a note and another note are open, the note is in the
\* active view, the status bar item is cleared
InitPlugin ==
    /\ text = <<>>
    /\ Fresh
    /\ Idle
    /\ Unused
    /\ docs \in {[e \in Editors |-> IF e = "note" THEN n ELSE OtherNote] : n \in Notes}
    /\ activeView = "note"
    /\ settings \in [provider : {"google", "openai"}, apiKey : BOOLEAN,
                      openaiApiKey : {TRUE}]
    /\ invocations = [i \in Invocations |-> [pc |-> "idle", editor |-> "none",
                                              cursorLine |-> 0, file |-> null,
                                              media |-> 0]]
    /\ notices = {}
    /\ uploads = {}
    /\ statusEl = ""

InitDiagram ==
    /\ text = <<>>
    /\ Start
    /\ responseText \in DiagramResponses
    /\ includeFeatures = TRUE
    /\ parsed = NotParsed
    /\ Unused

InitFormat ==
    /\ text = <<>>
    /\ Start
    /\ Idle
    /\ inputTags \in TagArrays
    /\ formattedTags = <<>>
    /\ scanStart = 0
    /\ scanned = [patternLength |-> 0, repetitions |-> 0]

\* cleanRepetitiveText(text, k)
Clean ==
    /\ pc = "ready"
    /\ \E k \in 0..MaxCap :
          /\ maxRepetitions' = k
          /\ cleanedText' = cleanRepetitiveText(text, k)
    /\ pc' = "cleaned"
    /\ UNCHANGED <<text, threshold, recleanedText, hadHallucination>>
    /\ UNCHANGED <<parserVars, formatVars, scanVars, stepVars>>
    /\ UNCHANGED callerVars

\* cleanRepetitiveText applied to its own output, with the same cap
Reclean ==
    /\ pc = "cleaned"
    /\ recleanedText' = cleanRepetitiveText(cleanedText, maxRepetitions)
    /\ pc' = "recleaned"
    /\ UNCHANGED <<text, maxRepetitions, threshold, cleanedText, hadHallucination>>
    /\ UNCHANGED <<parserVars, formatVars, scanVars, stepVars>>
    /\ UNCHANGED callerVars

\* detectHallucination(text, th)
Detect ==
    /\ pc = "ready"
    /\ \E th \in Thresholds :
          /\ threshold' = th
          /\ hadHallucination' = detectHallucination(text, th)
    /\ pc' = "detected"
    /\ UNCHANGED <<text, maxRepetitions, cleanedText, recleanedText>>
    /\ UNCHANGED <<parserVars, formatVars, scanVars, stepVars>>
    /\ UNCHANGED callerVars

\* cleanTranscription(text)
Transcribe ==
    /\ pc = "ready"
    /\ LET result == cleanTranscription(text)
       IN /\ cleanedText' = result.cleanedText
          /\ hadHallucination' = result.hadHallucination
    /\ pc' = "transcribed"
    /\ UNCHANGED <<text, maxRepetitions, threshold, recleanedText>>
    /\ UNCHANGED <<parserVars, formatVars, scanVars, stepVars>>
    /\ UNCHANGED callerVars

\* parseGeneralResponse(responseText, includeFeatures)
Parse ==
    /\ pc = "ready"
    /\ parsed' = parseGeneralResponse(responseText, includeFeatures)
    /\ pc' = "parsed"
    /\ UNCHANGED <<text, maxRepetitions, threshold, cleanedText, recleanedText,
                   hadHallucination, responseText, includeFeatures>>
    /\ UNCHANGED <<formatVars, scanVars, stepVars>>
    /\ UNCHANGED callerVars

\* parseClaudeResponse(responseText)
ParseClaude ==
    /\ pc = "ready"
    /\ parsed' = parseClaudeResponse(responseText)
    /\ pc' = "parsedClaude"
    /\ UNCHANGED <<text, maxRepetitions, threshold, cleanedText, recleanedText,
                   hadHallucination, responseText, includeFeatures>>
    /\ UNCHANGED <<formatVars, scanVars, stepVars>>
    /\ UNCHANGED callerVars

\* formatTagsAsObsidianTags(inputTags)
Format ==
    /\ pc = "ready"
    /\ formattedTags' = formatTagsAsObsidianTags(inputTags)
    /\ pc' = "formatted"
    /\ UNCHANGED <<text, maxRepetitions, threshold, cleanedText, recleanedText,
                   hadHallucination, inputTags>>
    /\ UNCHANGED <<parserVars, scanVars, stepVars>>
    /\ UNCHANGED callerVars

\* findLongestRepetitivePattern(words, i, k) on the tokens of the text, as
\* cleanRepetitiveText splits them, at every index up to one past the end
Scan ==
    /\ pc = "ready"
    /\ LET words == IF text = <<>> THEN <<>> ELSE split(trim(text))
       IN \E i \in 0..(Len(words) + 1), k \in 0..MaxCap :
             /\ scanStart' = i
             /\ maxRepetitions' = k
             /\ scanned' = findLongestRepetitivePattern(words, i, k)
    /\ pc' = "scanned"
    /\ UNCHANGED <<text, threshold, cleanedText, recleanedText, hadHallucination,
                   inputTags, formattedTags>>
    /\ UNCHANGED <<parserVars, stepVars>>
    /\ UNCHANGED callerVars

\* text.trim().split(/\s+/) of the text under work
textWords == split(trim(text))

Blank(t) == t = <<>> \/ trim(t) = <<>>

\* cleanRepetitiveText(text, k) up to its loop: lines 13-22
BeginClean ==
    /\ pc = "ready"
    /\ ~Blank(text)
    /\ \E k \in 0..MaxCap : maxRepetitions' = k
    /\ cursor' = 0
    /\ emitted' = <<>>
    /\ pc' = "cleaning"
    /\ UNCHANGED <<text, threshold, cleanedText, recleanedText, hadHallucination,
                   counted, runPos, runLen, runCount>>
    /\ UNCHANGED <<parserVars, formatVars, scanVars>>
    /\ UNCHANGED callerVars

\* cleanRepetitiveText(text, k) of a blank text: lines 13-15
CleanBlank ==
    /\ pc = "ready"
    /\ Blank(text)
    /\ \E k \in 0..MaxCap : maxRepetitions' = k
    /\ cleanedText' = text
    /\ pc' = "cleaned"
    /\ UNCHANGED <<text, threshold, recleanedText, hadHallucination>>
    /\ UNCHANGED <<parserVars, formatVars, scanVars, stepVars>>
    /\ UNCHANGED callerVars

\* one iteration of the cleaner's loop: lines 23-45
CleanStep ==
    /\ pc = "cleaning"
    /\ cursor < Len(textWords)
    /\ LET after == CleanIteration(textWords, cursor, emitted, maxRepetitions)
       IN /\ cursor' = after.i
          /\ emitted' = after.cleanedWords
    /\ UNCHANGED <<text, pc, maxRepetitions, threshold, cleanedText, recleanedText,
                   hadHallucination, counted, runPos, runLen, runCount>>
    /\ UNCHANGED <<parserVars, formatVars, scanVars>>
    /\ UNCHANGED callerVars

\* the cleaner's loop ends and the cleaned words are joined: lines 23, 47
CleanEnd ==
    /\ pc = "cleaning"
    /\ ~(cursor < Len(textWords))
    /\ cleanedText' = join(emitted, <<" ">>)
    /\ pc' = "cleaned"
    /\ UNCHANGED <<text, maxRepetitions, threshold, recleanedText, hadHallucination>>
    /\ UNCHANGED <<parserVars, formatVars, scanVars, stepVars>>
    /\ UNCHANGED callerVars

\* calculateRepetitiveScore(words) up to its loop: lines 213-217
BeginScore ==
    /\ pc = "ready"
    /\ ~Blank(text)
    /\ cursor' = 0
    /\ counted' = 0
    /\ pc' = "scoring"
    /\ UNCHANGED <<text, maxRepetitions, threshold, cleanedText, recleanedText,
                   hadHallucination, emitted, runPos, runLen, runCount>>
    /\ UNCHANGED <<parserVars, formatVars, scanVars>>
    /\ UNCHANGED callerVars

\* one iteration of the score's loop: lines 218-228
ScoreStep ==
    /\ pc = "scoring"
    /\ cursor < Len(textWords)
    /\ LET after == ScoreIteration(textWords, cursor, counted)
       IN /\ cursor' = after.i
          /\ counted' = after.repetitiveWords
    /\ UNCHANGED <<text, pc, maxRepetitions, threshold, cleanedText, recleanedText,
                   hadHallucination, emitted, runPos, runLen, runCount>>
    /\ UNCHANGED <<parserVars, formatVars, scanVars>>
    /\ UNCHANGED callerVars

\* the score's loop ends; the score is counted / words.length: lines 218, 230
ScoreEnd ==
    /\ pc = "scoring"
    /\ ~(cursor < Len(textWords))
    /\ pc' = "scored"
    /\ UNCHANGED <<text, maxRepetitions, threshold, cleanedText, recleanedText,
                   hadHallucination>>
    /\ UNCHANGED <<parserVars, formatVars, scanVars, stepVars>>
    /\ UNCHANGED callerVars

\* the scanner at some startIndex and patternLen up to its inner loop:
\* lines 65-71
BeginCount ==
    /\ pc = "ready"
    /\ ~Blank(text)
    /\ \E startIndex \in 0..(Len(textWords) - 1) :
          \E patternLen \in 1..Min(10, Len(textWords) - startIndex) :
             /\ scanStart' = startIndex
             /\ runLen' = patternLen
             /\ runPos' = startIndex + patternLen
    /\ runCount' = 1
    /\ pc' = "counting"
    /\ UNCHANGED <<text, maxRepetitions, threshold, cleanedText, recleanedText,
                   hadHallucination, scanned, cursor, emitted, counted>>
    /\ UNCHANGED <<parserVars, formatVars>>
    /\ UNCHANGED callerVars

\* one iteration of the scanner's inner loop that finds a repetition:
\* lines 73-80
CountStep ==
    /\ pc = "counting"
    /\ NextMatches(textWords, scanStart, runLen, runPos)
    /\ runCount' = runCount + 1
    /\ runPos' = runPos + runLen
    /\ UNCHANGED <<text, pc, maxRepetitions, threshold, cleanedText, recleanedText,
                   hadHallucination, scanStart, scanned, cursor, emitted, counted,
                   runLen>>
    /\ UNCHANGED <<parserVars, formatVars>>
    /\ UNCHANGED callerVars

\* the scanner's inner loop ends, by its condition or by the break:
\* lines 73, 81-83
CountEnd ==
    /\ pc = "counting"
    /\ ~NextMatches(textWords, scanStart, runLen, runPos)
    /\ pc' = "counted"
    /\ UNCHANGED <<text, maxRepetitions, threshold, cleanedText, recleanedText,
                   hadHallucination>>
    /\ UNCHANGED <<parserVars, formatVars, scanVars, stepVars>>
    /\ UNCHANGED callerVars

\* detectHallucination(text, th) returning before the score: lines 174-189
DetectEarly ==
    /\ pc = "ready"
    /\ \E th \in Thresholds :
          /\ threshold' = th
          /\ \/ Blank(text)
             \/ Len(textWords) < 10
             \/ Cardinality(UniqueWords(textWords)) * th[2] < th[1] * Len(textWords)
          /\ hadHallucination' =
                 (/\ ~Blank(text)
                  /\ Len(textWords) >= 10
                  /\ Cardinality(UniqueWords(textWords)) * th[2]
                        < th[1] * Len(textWords))
    /\ pc' = "detected"
    /\ UNCHANGED <<text, maxRepetitions, cleanedText, recleanedText>>
    /\ UNCHANGED <<parserVars, formatVars, scanVars, stepVars>>
    /\ UNCHANGED callerVars

\* detectHallucination(text, th) up to the loop of the score it calls:
\* lines 174-192, 213-217
BeginDetect ==
    /\ pc = "ready"
    /\ ~Blank(text)
    /\ Len(textWords) >= 10
    /\ \E th \in Thresholds :
          /\ threshold' = th
          /\ ~(Cardinality(UniqueWords(textWords)) * th[2] < th[1] * Len(textWords))
    /\ cursor' = 0
    /\ counted' = 0
    /\ pc' = "detecting"
    /\ UNCHANGED <<text, maxRepetitions, cleanedText, recleanedText,
                   hadHallucination, emitted, runPos, runLen, runCount>>
    /\ UNCHANGED <<parserVars, formatVars, scanVars>>
    /\ UNCHANGED callerVars

\* one iteration of the score's loop, called by detectHallucination:
\* lines 218-228
DetectScoreStep ==
    /\ pc = "detecting"
    /\ cursor < Len(textWords)
    /\ LET after == ScoreIteration(textWords, cursor, counted)
       IN /\ cursor' = after.i
          /\ counted' = after.repetitiveWords
    /\ UNCHANGED <<text, pc, maxRepetitions, threshold, cleanedText, recleanedText,
                   hadHallucination, emitted, runPos, runLen, runCount>>
    /\ UNCHANGED <<parserVars, formatVars, scanVars>>
    /\ UNCHANGED callerVars

\* the score returns to detectHallucination, which returns true or goes on
\* to findMaxConsecutivePatternRepetitions: lines 230, 192-198, 240-242
DetectScoreEnd ==
    /\ pc = "detecting"
    /\ ~(cursor < Len(textWords))
    /\ IF 2 * counted > Len(textWords)
       THEN /\ hadHallucination' = TRUE
            /\ pc' = "detected"
            /\ UNCHANGED <<cursor, runCount>>
       ELSE /\ cursor' = 0
            /\ runCount' = 0
            /\ pc' = "maxing"
            /\ UNCHANGED hadHallucination
    /\ UNCHANGED <<text, maxRepetitions, threshold, cleanedText, recleanedText,
                   emitted, counted, runPos, runLen>>
    /\ UNCHANGED <<parserVars, formatVars, scanVars>>
    /\ UNCHANGED callerVars

\* one iteration of the outer for loop of
\* findMaxConsecutivePatternRepetitions, its inner loop of at most 5
\* iterations included: lines 243-250
MaxStep ==
    /\ pc = "maxing"
    /\ cursor < Len(textWords)
    /\ runCount' = MaxIteration(textWords, cursor, runCount)
    /\ cursor' = cursor + 1
    /\ UNCHANGED <<text, pc, maxRepetitions, threshold, cleanedText, recleanedText,
                   hadHallucination, emitted, counted, runPos, runLen>>
    /\ UNCHANGED <<parserVars, formatVars, scanVars>>
    /\ UNCHANGED callerVars

\* the outer for loop ends and detectHallucination returns: lines 243,
\* 252, 199-203
MaxEnd ==
    /\ pc = "maxing"
    /\ ~(cursor < Len(textWords))
    /\ hadHallucination' = (runCount > 8)
    /\ pc' = "detected"
    /\ UNCHANGED <<text, maxRepetitions, threshold, cleanedText, recleanedText>>
    /\ UNCHANGED <<parserVars, formatVars, scanVars, stepVars>>
    /\ UNCHANGED callerVars

\* transcribeWithOpenAI: Whisper answers text, the chat model answers
\* responseText; lines 57-74, 135-139
CallOpenAI ==
    /\ pc = "ready"
    /\ provider' = "openai"
    /\ LET cleaned == cleanTranscription(text)
       IN /\ cleanedText' = cleaned.cleanedText
          /\ hadHallucination' = cleaned.hadHallucination
    /\ transcriptionResult' = transcribeWithOpenAI(text, responseText, includeFeatures)
    /\ pc' = "returned"
    /\ UNCHANGED <<text, maxRepetitions, threshold, recleanedText>>
    /\ UNCHANGED <<parserVars, formatVars, scanVars, stepVars>>
    /\ UNCHANGED pluginVars

\* transcribeWithOpenAI throws: a response is not ok; lines 51-54, 131-133
ThrowOpenAI ==
    /\ pc = "ready"
    /\ provider' = "openai"
    /\ pc' = "thrown"
    /\ UNCHANGED <<text, maxRepetitions, threshold, cleanedText, recleanedText,
                   hadHallucination, transcriptionResult>>
    /\ UNCHANGED <<parserVars, formatVars, scanVars, stepVars>>
    /\ UNCHANGED pluginVars

\* transcribeWithGemini: Gemini answers responseText; lines 241-260
CallGemini ==
    /\ pc = "ready"
    /\ provider' = "google"
    /\ parsed' = parseGeneralResponse(responseText, includeFeatures)
    /\ IF parsed'.transcription # <<>>
       THEN LET cleaned == cleanTranscription(parsed'.transcription)
            IN /\ cleanedText' = cleaned.cleanedText
               /\ hadHallucination' = cleaned.hadHallucination
       ELSE UNCHANGED <<cleanedText, hadHallucination>>
    /\ transcriptionResult' = transcribeWithGemini(responseText, includeFeatures)
    /\ pc' = "returned"
    /\ UNCHANGED <<text, maxRepetitions, threshold, recleanedText>>
    /\ UNCHANGED <<responseText, includeFeatures>>
    /\ UNCHANGED <<formatVars, scanVars, stepVars>>
    /\ UNCHANGED pluginVars

\* transcribeWithGemini throws: no candidate text; lines 237-239
ThrowGemini ==
    /\ pc = "ready"
    /\ provider' = "google"
    /\ pc' = "thrown"
    /\ UNCHANGED <<text, maxRepetitions, threshold, cleanedText, recleanedText,
                   hadHallucination, transcriptionResult>>
    /\ UNCHANGED <<parserVars, formatVars, scanVars, stepVars>>
    /\ UNCHANGED pluginVars

coreVars ==
    <<text, pc, maxRepetitions, threshold, cleanedText, recleanedText,
      hadHallucination, parserVars, formatVars, scanVars, stepVars,
      provider, transcriptionResult>>

\* the next invocation of the command
NextInvocation(i) ==
    /\ invocations[i].pc = "idle"
    /\ \A j \in Invocations : j < i => invocations[j].pc # "idle"

\* the command on a line on which a step of lines 51-83 fails: a notice,
\* and transcribeMediaFile returns
Refuse(i) ==
    /\ NextInvocation(i)
    /\ activeView \in Editors
    /\ \E cursorLine \in 1..Len(docs[activeView]) :
          LET refusal == Refusal(docs[activeView][cursorLine], settings)
          IN /\ refusal # null
             /\ notices' = notices \cup {<<i, refusal>>}
             /\ invocations' = [invocations EXCEPT
                                   ![i] = [pc |-> "returned", editor |-> activeView,
                                           cursorLine |-> cursorLine, file |-> null,
                                           media |-> 0]]
    /\ UNCHANGED <<docs, activeView, settings, uploads, statusEl>>
    /\ UNCHANGED coreVars

\* the command on the line of an audio file that passes lines 51-83:
\* the progress block is inserted and updated, and transcribeWithAI is
\* called; lines 85-100
Begin(i) ==
    /\ NextInvocation(i)
    /\ activeView \in Editors
    /\ \E cursorLine \in 1..Len(docs[activeView]) :
          LET line == docs[activeView][cursorLine]
              inserted == insertProgressBlock(docs[activeView], cursorLine, i)
          IN /\ Refusal(line, settings) = null
             /\ docs' = [docs EXCEPT
                            ![activeView] = updateProgressBlock(inserted, i, "sending audio")]
             /\ invocations' = [invocations EXCEPT
                                   ![i] = [pc |-> "awaiting", editor |-> activeView,
                                           cursorLine |-> cursorLine,
                                           file |-> extractMediaFileName(line),
                                           media |-> line.origin]]
    /\ notices' = notices \cup {<<i, "Starting transcription...">>}
    /\ uploads' = uploads \cup {i}
    /\ statusEl' = "sending audio"
    /\ UNCHANGED <<activeView, settings>>
    /\ UNCHANGED coreVars

\* the provider reports a stage: the callback of lines 100-103
Progress(i) ==
    /\ invocations[i].pc = "awaiting"
    /\ \E stage \in Stages :
          /\ statusEl' = stage
          /\ docs' = [docs EXCEPT
                         ![invocations[i].editor] =
                             updateProgressBlock(docs[invocations[i].editor], i, stage)]
    /\ UNCHANGED <<activeView, settings, invocations, notices, uploads>>
    /\ UNCHANGED coreVars

\* the provider returns its result: lines 105-123
Complete(i) ==
    /\ invocations[i].pc = "awaiting"
    /\ LET editor == invocations[i].editor
           updated == updateProgressBlock(docs[editor], i, "inserting results")
           range == findProgressBlockRange(updated)
       IN docs' = [docs EXCEPT
                     ![editor] =
                         IF range # NoRange
                         THEN replaceRange(updated, range,
                                           OutputLines(i, updated[range.from].origin))
                         ELSE insertOutput(updated, invocations[i].cursorLine, i)]
    /\ notices' = notices \cup {<<i, "Transcription completed!">>}
    /\ statusEl' = ""
    /\ invocations' = [invocations EXCEPT ![i].pc = "completed"]
    /\ UNCHANGED <<activeView, settings, uploads>>
    /\ UNCHANGED coreVars

\* the provider throws: the catch of line 125 and showFailure, lines 160-174
Fail(i) ==
    /\ invocations[i].pc = "awaiting"
    /\ notices' = notices \cup {<<i, "Transcription failed">>}
    /\ IF activeView \in Editors
       THEN LET range == findProgressBlockRange(docs[activeView])
            IN docs' = [docs EXCEPT
                          ![activeView] =
                              IF range # NoRange
                              THEN replaceRange(docs[activeView], range,
                                                ErrorLines(i, docs[activeView][range.from].origin))
                              ELSE docs[activeView]]
       ELSE UNCHANGED docs
    /\ statusEl' = ""
    /\ invocations' = [invocations EXCEPT ![i].pc = "failed"]
    /\ UNCHANGED <<activeView, settings, uploads>>
    /\ UNCHANGED coreVars

\* the user brings another view to the front: a note, or a view that is no
\* markdown view
SwitchView ==
    /\ \E view \in Editors \cup {"none"} :
          /\ view # activeView
          /\ activeView' = view
    /\ UNCHANGED <<docs, settings, invocations, notices, uploads, statusEl>>
    /\ UNCHANGED coreVars

Next == Clean \/ Reclean \/ Detect \/ Transcribe

Spec == Init /\ [][Next]_vars

\* the calls that judge a text, on the texts that hold long runs
NextRuns == Detect \/ Transcribe

SpecRuns == InitRuns /\ [][NextRuns]_vars

\* the parser, on the responses
NextParse == Parse

SpecParse == InitParse /\ [][NextParse]_vars

\* both parsers, on the responses of freely ordered sections
NextSections == Parse \/ ParseClaude

SpecSections == InitSections /\ [][NextSections]_vars

\* both parsers, on the tag lines
NextTags == Parse \/ ParseClaude

SpecTags == InitTags /\ [][NextTags]_vars

\* the scanner, on the texts to scan
NextScan == Scan

SpecScan == InitScan /\ [][NextScan]_vars

\* the loops of the cleaner, the score and the scanner, iteration by iteration
NextSteps ==
    \/ BeginClean \/ CleanBlank \/ CleanStep \/ CleanEnd
    \/ BeginScore \/ ScoreStep \/ ScoreEnd
    \/ BeginCount \/ CountStep \/ CountEnd
    \/ DetectEarly \/ BeginDetect \/ DetectScoreStep \/ DetectScoreEnd
    \/ MaxStep \/ MaxEnd

SpecSteps == InitSteps /\ [][NextSteps]_vars

\* the places of a call that has not returned
Running == {"ready", "cleaning", "scoring", "counting", "detecting", "maxing"}

\* the next statement of a call that has not returned, seen by the place of
\* the call and the positions of its loops
RunOn ==
    /\ pc \in Running
    /\ \E place \in Running \cup {"cleaned", "scored", "counted", "detected"} :
          pc' = place
    /\ \E i \in 0..Len(text) : cursor' = i
    /\ \E pos \in 0..Len(text) : runPos' = pos

\* the place of a call and the positions of its loops
progress == <<pc, cursor, runPos>>

\* the code is synchronous: a call that has begun runs on, statement after
\* statement, until it returns
SpecStepsFair == SpecSteps /\ WF_progress(RunOn)

\* the two providers, from the answer of their model on
NextProviders == CallOpenAI \/ ThrowOpenAI \/ CallGemini \/ ThrowGemini

SpecProviders == InitProviders /\ [][NextProviders]_vars

\* the command of the plugin, its provider calls and the user's views
NextPlugin ==
    \/ \E i \in Invocations :
          Refuse(i) \/ Begin(i) \/ Progress(i) \/ Complete(i) \/ Fail(i)
    \/ SwitchView

SpecPlugin == InitPlugin /\ [][NextPlugin]_vars

\* both parsers, on the DIAGRAM sections
NextDiagram == Parse \/ ParseClaude

SpecDiagram == InitDiagram /\ [][NextDiagram]_vars

\* the tag formatter, on the arrays of raw tags
NextFormat == Format

SpecFormat == InitFormat /\ [][NextFormat]_vars

(***************************************************************************)
(* Vocabulary of the properties                                            *)
(***************************************************************************)
\* the whitespace-separated tokens of a string (none for a blank string)
Tokens(s) == IF trim(s) = <<>> THEN <<>> ELSE split(trim(s))

MarkerWords == split(MARKER)

\* tokens compared case-insensitively
SameWord(a, b) == toLowerCase(a) = toLowerCase(b)

\* w[i .. i+L) is repeated at least r times consecutively from index i
HasRun(w, i, L, r) ==
    /\ i + r * L <= Len(w)
    /\ \A j \in L..(r * L - 1) : SameWord(w[i + j + 1], w[i + j - L + 1])

\* the number of consecutive repetitions of w[i .. i+L) from index i
Reps(w, i, L) ==
    Cardinality({r \in 1..((Len(w) - i) \div L) : HasRun(w, i, L, r)})

\* some pattern of 1 to 10 tokens repeats more than k times somewhere in w
ExcessiveRun(w, k) ==
    \E i \in 0..(Len(w) - 1) : \E L \in 1..Min(10, Len(w) - i) :
        HasRun(w, i, L, k + 1)

\* the three tokens of the marker stand at index e of w
MarkerAt(w, e) ==
    e + 3 <= Len(w) /\ SubSeq(w, e + 1, e + 3) = MarkerWords

HasMarker(w) == \E e \in 0..(Len(w) - 1) : MarkerAt(w, e)

InputWords == Tokens(text)
OutputWords == Tokens(cleanedText)

(***************************************************************************)
(* C1..C9: the cleaner                                                     *)
(***************************************************************************)
\* C1: cleaning is idempotent: for every text and every cap k >= 1, cleaning
\* the cleaned text again with the same cap returns it unchanged.
C1_Idempotence ==
    (pc = "recleaned" /\ maxRepetitions >= 1) => recleanedText = cleanedText

\* C2: cap invariant: in the cleaned text no run of a pattern of 1 to 10
\* tokens has more than k repetitions, unless the marker follows the run.
C2_CapInvariant ==
    (pc = "cleaned" /\ maxRepetitions >= 1) =>
        \A i \in 0..(Len(OutputWords) - 1) :
            \A L \in 1..Min(10, Len(OutputWords) - i) :
                Reps(OutputWords, i, L) > maxRepetitions =>
                    MarkerAt(OutputWords, i + L * Reps(OutputWords, i, L))

\* C3: passthrough: a text in which no pattern of 1 to 10 tokens repeats
\* more than k times comes back as its own tokens, in order, joined by
\* single spaces (a text without tokens comes back as it is), without marker.
C3_Passthrough ==
    (pc = "cleaned" /\ ~ExcessiveRun(InputWords, maxRepetitions)) =>
        /\ OutputWords = InputWords
        /\ InputWords # <<>> => cleanedText = join(InputWords, <<" ">>)
        /\ InputWords = <<>> => cleanedText = text
        /\ ~HasMarker(OutputWords)

\* a run of exactly k = 3 repetitions, at the cap, inside a longer text
C3_Witness ==
    /\ pc = "cleaned" /\ maxRepetitions = 3
    /\ ~ExcessiveRun(InputWords, 3)
    /\ Len(InputWords) >= 5
    /\ \E i \in 1..(Len(InputWords) - 3) : Reps(InputWords, i, 1) = 3
    /\ cleanedText = join(InputWords, <<" ">>)

\* w is m tokens, pairwise different and different from t under the
\* comparison same, followed by n > 3 copies of the token t
TrailingRun(w, m, same(_, _)) ==
    /\ Len(w) - m > 3
    /\ \A j \in (m + 1)..Len(w) : w[j] = w[m + 1]
    /\ \A a \in 1..m : \A b \in (a + 1)..(m + 1) : ~same(w[a], w[b])

TrailingRunOutput(w, m) ==
    join(SubSeq(w, 1, m) \o <<w[m + 1], w[m + 1], w[m + 1], MARKER>>, <<" ">>)

Identical(a, b) == a = b

\* C4 as stated: m pairwise distinct tokens then n > 3 copies of another
\* token t are cleaned, with cap 3, to the m tokens, t three times and the
\* marker.
C4_TrailingRunAsStated ==
    (pc = "cleaned" /\ maxRepetitions = 3) =>
        \A m \in 0..Len(InputWords) :
            TrailingRun(InputWords, m, Identical) =>
                cleanedText = TrailingRunOutput(InputWords, m)

\* C4 amended: the same, for tokens that are distinct when compared
\* case-insensitively.
C4_TrailingRun ==
    (pc = "cleaned" /\ maxRepetitions = 3) =>
        \A m \in 0..Len(InputWords) :
            TrailingRun(InputWords, m, SameWord) =>
                cleanedText = TrailingRunOutput(InputWords, m)

\* the instance of the specification: four distinct tokens, then "fa" 20 times
C4_Witness ==
    /\ pc = "cleaned" /\ maxRepetitions = 3
    /\ Len(InputWords) = 24 /\ TrailingRun(InputWords, 4, SameWord)
    /\ cleanedText = TrailingRunOutput(InputWords, 4)

\* one token and then copies of another one
C4_WitnessShort ==
    /\ pc = "cleaned" /\ maxRepetitions = 3
    /\ Len(InputWords) = 6 /\ TrailingRun(InputWords, 1, SameWord)
    /\ cleanedText = TrailingRunOutput(InputWords, 1)

\* the three signals of detectHallucination, as fractions
UniqueRatioBelow(w, th) ==
    Cardinality({toLowerCase(w[i]) : i \in 1..Len(w)}) * th[2] < th[1] * Len(w)

ScoreAboveHalf(w) ==
    LET score == calculateRepetitiveScore(w) IN 2 * score[1] > score[2]

\* C5: signal 3: a text of at least 10 tokens in which some pattern of 1 to
\* 10 tokens repeats more than 8 times is judged a hallucination.
C5_Signal3 ==
    (pc = "detected" /\ Len(InputWords) >= 10 /\ ExcessiveRun(InputWords, 8))
        => hadHallucination = TRUE

\* nine repetitions of a pattern of ten tokens
C5_WitnessLongPattern ==
    /\ pc = "detected" /\ threshold = <<0, 1>>
    /\ HasRun(InputWords, 0, 10, 9) /\ Reps(InputWords, 0, 1) = 1
    /\ hadHallucination = TRUE

\* nine repetitions decide alone: neither the ratio nor the score trips
C5_Witness ==
    /\ pc = "detected" /\ Len(InputWords) >= 10
    /\ ExcessiveRun(InputWords, 8)
    /\ ~UniqueRatioBelow(InputWords, threshold)
    /\ ~ScoreAboveHalf(InputWords)
    /\ hadHallucination = TRUE

\* w is one token n times
SingleToken(w, n) == Len(w) = n /\ \A j \in 1..n : w[j] = w[1]

\* C6: one token repeated n >= 20 times is judged a hallucination.
C6_Monotonicity ==
    (pc = "detected" /\ \E n \in 20..Len(InputWords) : SingleToken(InputWords, n))
        => hadHallucination = TRUE

\* more than twenty copies, with the threshold at which the ratio never trips
C6_Witness ==
    /\ pc = "detected" /\ threshold = <<0, 1>>
    /\ Len(InputWords) > 20 /\ SingleToken(InputWords, Len(InputWords))
    /\ hadHallucination = TRUE

\* C7: short-text exemption: an empty or blank text and a text of fewer than
\* 10 tokens are never judged a hallucination, whatever the threshold.
C7_ShortText ==
    (pc = "detected" /\ Len(InputWords) < 10) => hadHallucination = FALSE

\* nine copies of one token, with a threshold above their unique-word ratio
C7_Witness ==
    /\ pc = "detected" /\ threshold = <<1, 1>>
    /\ SingleToken(InputWords, 9)
    /\ hadHallucination = FALSE

\* a blank text that is not empty
C7_WitnessBlank ==
    pc = "detected" /\ text # <<>> /\ InputWords = <<>> /\ hadHallucination = FALSE

\* C8: the verdict on a text of at least 10 tokens is true exactly when the
\* unique-word ratio is below the threshold, or the repetitive-mass score is
\* above 1/2, or some pattern repeats more than 8 times.
C8_Verdict ==
    (pc = "detected" /\ Len(InputWords) >= 10) =>
        hadHallucination = (\/ UniqueRatioBelow(InputWords, threshold)
                            \/ ScoreAboveHalf(InputWords)
                            \/ ExcessiveRun(InputWords, 8))

\* at the bounds: exactly 8 repetitions and a score of exactly 1/2
C8_Witness ==
    /\ pc = "detected" /\ Len(InputWords) >= 10
    /\ ExcessiveRun(InputWords, 7) /\ ~ExcessiveRun(InputWords, 8)
    /\ 2 * calculateRepetitiveScore(InputWords)[1] = Len(InputWords)
    /\ hadHallucination = FALSE

\* at the bound of signal 1: the ratio equals the threshold
C8_WitnessRatio ==
    /\ pc = "detected" /\ Len(InputWords) >= 10
    /\ Cardinality(UniqueWords(InputWords)) * threshold[2]
         = threshold[1] * Len(InputWords)
    /\ hadHallucination = FALSE

\* C9: cleanTranscription returns the text cleaned with cap 3 and the
\* verdict of detectHallucination on the original text with the default
\* threshold; a blank text comes back unchanged with the verdict false.
C9_CleanTranscription ==
    pc = "transcribed" =>
        /\ cleanedText = cleanRepetitiveText(text, 3)
        /\ hadHallucination = detectHallucination(text, DEFAULT_THRESHOLD)
        /\ InputWords = <<>> => (cleanedText = text /\ hadHallucination = FALSE)

\* a hallucination whose cleaned text would not be judged one
C9_Witness ==
    /\ pc = "transcribed" /\ hadHallucination = TRUE
    /\ cleanedText # text
    /\ ~detectHallucination(cleanedText, DEFAULT_THRESHOLD)

(***************************************************************************)
(* Claims about the parser                                                 *)
(***************************************************************************)
\* C10: parser round-trip: for the response built of the section texts X, Y,
\* the tag line 'a, b, c' and the diagram Z, parseGeneralResponse(blob, true)
\* returns transcription X, summary Y, tags [a, b, c] and diagram Z, also
\* when X or Y holds a word followed by a colon such as 'summary:' or 'tags:'.
C10_RoundTrip ==
    (pc = "parsed" /\ includeFeatures) =>
        \A b \in Blobs :
            b.blob = responseText =>
                /\ parsed.transcription = b.X
                /\ parsed.summary.defined /\ parsed.summary.value = b.Y
                /\ parsed.tags.defined
                /\ parsed.tags.value = <<Word("a"), Word("b"), Word("c")>>
                /\ parsed.diagram.defined /\ parsed.diagram.value = b.Z

\* the responses of freely ordered sections that the parsed text is
Built == {r \in SectionResponses : r.response = responseText}

AllFilled(r) == \A i \in DOMAIN r.order : r.filled[i]

\* C11: section boundaries: with features enabled, the content of every
\* section of a response runs from just after its header up to the next
\* header of any of the four kinds or the end of the text, in whatever
\* order the sections stand and whether one newline or a blank line
\* separates them: every field is the text of its own section.
C11_SectionBounds ==
    (pc = "parsed" /\ includeFeatures) =>
        \A r \in Built :
            AllFilled(r) =>
                \A i \in DOMAIN r.order : parsed[r.order[i]] = FieldOf[r.order[i]]

\* the tag lines that the parsed text is
BuiltLine == {l \in TagLines : l.response = responseText}

\* the words of the valid candidates of a tag line, in their order
ValidWords(l) ==
    LET IsWord(i) == l.kinds[i] = "word"
        places == SelectSeq(Array([i \in 1..Len(l.kinds) |-> i]), IsWord)
    IN Array([j \in 1..Len(places) |-> Word(TagWords[places[j]])])

\* C12: tag cap: when the TAGS section holds more than 5 comma-separated
\* candidates, of which at least 5 are non-empty after normalization, the
\* tags are exactly the first 5 of those, in their order.
C12_TagCap ==
    (pc = "parsed" /\ includeFeatures) =>
        \A l \in BuiltLine :
            (Len(l.kinds) > 5 /\ Len(ValidWords(l)) >= 5) =>
                /\ parsed.tags.defined
                /\ Len(parsed.tags.value) = 5
                /\ parsed.tags.value = SubSeq(ValidWords(l), 1, 5)

\* the kinds of the sections of a response
KindsIn(r) == {r.order[i] : i \in DOMAIN r.order}

\* the text of the last section of a response, which runs to the end
LastText(r) ==
    IF r.filled[Len(r.order)] THEN BodyOf[r.order[Len(r.order)]] ELSE <<>>

\* C13: transcription fallback: with features enabled, a response with no
\* TRANSCRIPTION header gives the whole input as transcription while the
\* other fields are still extracted from their headers; a response with a
\* TRANSCRIPTION header (here as its last section, so that the section runs
\* to the end of the text) gives that section's trimmed content and not the
\* whole input.
C13_Fallback ==
    (pc = "parsed" /\ includeFeatures) =>
        \A r \in Built :
            /\ "transcription" \notin KindsIn(r) =>
                  /\ parsed.transcription = responseText
                  /\ \A k \in Kinds \ {"transcription"} :
                        parsed[k].defined <=> k \in KindsIn(r)
                  /\ AllFilled(r) /\ r.sep = <<"\n", "\n">> =>
                        parsed[r.order[Len(r.order)]] = FieldOf[r.order[Len(r.order)]]
            /\ r.order[Len(r.order)] = "transcription" =>
                  /\ parsed.transcription = LastText(r)
                  /\ parsed.transcription # responseText

\* the optional fields
OptionalKinds == {"summary", "tags", "diagram"}

\* C14: for both parsers, an optional field is absent exactly when its
\* header does not occur in the text, and a header that is present with
\* empty content yields the empty string (the empty list for tags), not
\* absence; the parsers yield a result for every text.  (TRANSCRIPTION is
\* no header for parseClaudeResponse, whose responses are taken without it.)
C14_Absence ==
    ((pc = "parsed" /\ includeFeatures) \/ pc = "parsedClaude") =>
        \A r \in Built :
            (pc = "parsedClaude" => "transcription" \notin KindsIn(r)) =>
                /\ \A k \in OptionalKinds : parsed[k].defined <=> k \in KindsIn(r)
                /\ \A i \in DOMAIN r.order :
                      (r.order[i] \in OptionalKinds /\ ~r.filled[i]) =>
                          parsed[r.order[i]] = Some(<<>>)

\* C15: simple mode: parseGeneralResponse(text, false) returns the whole
\* text as transcription and no summary, tags or diagram, also when the text
\* holds section headers.
C15_SimpleMode ==
    (pc = "parsed" /\ ~includeFeatures) =>
        /\ parsed.transcription = responseText
        /\ \A k \in OptionalKinds : ~parsed[k].defined

\* a text with the TRANSCRIPTION, SUMMARY and TAGS sections parsed in simple mode
C15_Witness ==
    /\ pc = "parsed" /\ ~includeFeatures
    /\ \E r \in Built :
          AllFilled(r) /\ KindsIn(r) = {"transcription", "summary", "tags"}
    /\ parsed.transcription = responseText
    /\ ~parsed.summary.defined

\* C16: tags are bare words: no tag returned by either parser begins with
\* '#', also for candidates written with more than one leading '#' or with
\* a '#' after a bullet.
C16_BareTags ==
    ((pc = "parsed" /\ includeFeatures) \/ pc = "parsedClaude") =>
        (parsed.tags.defined =>
            \A i \in DOMAIN parsed.tags.value :
                parsed.tags.value[i] # <<>> /\ parsed.tags.value[i][1] # "#")

\* the characters of a tag that normalization keeps: all but whitespace,
\* hyphens and the blacklist, lower-cased
Letters(tag) ==
    LET IsLetter(c) == ~IsSpace(c) /\ c # "-" /\ c \notin Blacklist
    IN toLowerCase(SelectSeq(tag, IsLetter))

\* a well-formed tag
WellFormed(tag) ==
    /\ tag # <<>>
    /\ toLowerCase(tag) = tag
    /\ \A i \in DOMAIN tag : ~IsSpace(tag[i]) /\ tag[i] \notin Blacklist
    /\ \A i \in 1..(Len(tag) - 1) : ~(tag[i] = "-" /\ tag[i + 1] = "-")
    /\ tag[1] # "-" /\ tag[Len(tag)] # "-"

\* C17: tag normalization invariant: every tag that formatTagsAsObsidianTags
\* returns is non-empty, lower-cased, without whitespace, without
\* blacklisted characters, without two consecutive hyphens and without a
\* hyphen at either end; the returned tags stand for the input tags that
\* hold a kept character, in the order of the input, and hold all their
\* kept characters (accented letters and emoji among them).
C17_Normalized ==
    pc = "formatted" =>
        /\ \A i \in DOMAIN formattedTags : WellFormed(formattedTags[i])
        /\ Array([i \in DOMAIN formattedTags |-> Letters(formattedTags[i])])
           = SelectSeq(Array([i \in DOMAIN inputTags |-> Letters(inputTags[i])]),
                       NonEmpty)

\* a tag with a space, a hyphen and a blacklisted character between two
\* words, formatted to the words with one hyphen between
C17_Witness ==
    /\ pc = "formatted"
    /\ \E i \in DOMAIN inputTags :
          /\ Len(inputTags[i]) = 4
          /\ inputTags[i][2] = " " /\ inputTags[i][3] = "-"
    /\ formattedTags = << <<"tag", "-", "[emoji]">> >>

\* two sample tags of which the first normalizes to nothing
C17_WitnessOrder ==
    /\ pc = "formatted"
    /\ inputTags = << <<"!">>, <<"Big", " ", "Tag">> >>
    /\ formattedTags = << <<"big", "-", "tag">> >>

\* C18: the diagram is bare Mermaid source: whenever a DIAGRAM section is
\* present, the diagram field of either parser is trimmed, does not start
\* with a mermaid fence (in any letter case) and does not end with a fence.
C18_BareDiagram ==
    ((pc = "parsed" /\ includeFeatures) \/ pc = "parsedClaude") =>
        (parsed.diagram.defined =>
            LET diagram == parsed.diagram.value
            IN /\ trim(diagram) = diagram
               /\ diagram # <<>> =>
                     /\ LowerItem(diagram[1]) # "[fence]mermaid"
                     /\ diagram[Len(diagram)] # "[fence]")

(***************************************************************************)
(* Claims about the scanner                                                *)
(***************************************************************************)
\* the pattern lengths that the scanner may try at index i of w
Lengths(w, i) == 1..Min(10, Len(w) - i)

\* C19: scanner result: at a startIndex inside the token sequence,
\* findLongestRepetitivePattern returns (L, r) where r is the largest number
\* of consecutive case-insensitive repetitions of tokens[startIndex ..
\* startIndex+L) over the lengths L from 1 to min(10, remaining tokens),
\* and L is the largest length that reaches r; the maxRepetitions argument
\* does not change the result.
C19_ScannerResult ==
    (pc = "scanned" /\ scanStart < Len(InputWords)) =>
        LET w == InputWords
            Ls == Lengths(w, scanStart)
        IN /\ scanned.patternLength \in Ls
           /\ scanned.repetitions = Reps(w, scanStart, scanned.patternLength)
           /\ \A L \in Ls :
                 \/ Reps(w, scanStart, L) < scanned.repetitions
                 \/ /\ Reps(w, scanStart, L) = scanned.repetitions
                    /\ L <= scanned.patternLength
           /\ \A k \in 0..MaxCap :
                 findLongestRepetitivePattern(w, scanStart, k) = scanned

\* a tie between one token four times and a pattern of five tokens four
\* times goes to the longer pattern
C19_Witness ==
    /\ pc = "scanned"
    /\ scanStart = 0
    /\ InputWords = NestedRun
    /\ Reps(InputWords, 0, 1) = 4
    /\ scanned = [patternLength |-> 5, repetitions |-> 4]

\* a pattern repeated in another letter case, from an index inside the text
C19_WitnessCase ==
    /\ pc = "scanned"
    /\ scanStart = 1
    /\ InputWords = Words(<<"no", "Fa", "no", "fa", "no">>)
    /\ scanned = [patternLength |-> 2, repetitions |-> 2]

\* a pattern of 10 tokens twice is found; of 11 tokens twice it is not
C19_WitnessLong ==
    /\ pc = "scanned"
    /\ scanStart = 0
    /\ \/ /\ Len(InputWords) = 20
          /\ scanned = [patternLength |-> 10, repetitions |-> 2]
       \/ /\ Len(InputWords) = 22
          /\ scanned = [patternLength |-> 10, repetitions |-> 1]

\* C20: scanner bounds: findLongestRepetitivePattern returns patternLength
\* 0 and repetitions 0 exactly when startIndex is at or past the end of the
\* token sequence; otherwise 1 <= patternLength <= min(10, remaining
\* tokens), repetitions >= 1 and patternLength * repetitions <= remaining
\* tokens, so that skipping patternLength * repetitions tokens never moves
\* a cursor past the end.
C20_ScannerBounds ==
    pc = "scanned" =>
        LET remaining == Len(InputWords) - scanStart
        IN /\ scanned = [patternLength |-> 0, repetitions |-> 0] <=> remaining <= 0
           /\ remaining > 0 =>
                 /\ 1 <= scanned.patternLength
                 /\ scanned.patternLength <= Min(10, remaining)
                 /\ scanned.repetitions >= 1
                 /\ scanned.patternLength * scanned.repetitions <= remaining
                 /\ scanStart + scanned.patternLength * scanned.repetitions
                    <= Len(InputWords)

\* a scan that starts one past the end of a text
C20_Witness ==
    /\ pc = "scanned"
    /\ Len(InputWords) > 0
    /\ scanStart = Len(InputWords) + 1
    /\ scanned = [patternLength |-> 0, repetitions |-> 0]

\* a scan whose repetitions take all the remaining tokens
C20_WitnessFull ==
    /\ pc = "scanned"
    /\ scanStart = 1
    /\ scanned.repetitions = 2
    /\ scanStart + scanned.patternLength * scanned.repetitions = Len(InputWords)

(***************************************************************************)
(* Claims about the steps of the loops                                     *)
(***************************************************************************)
\* the cleaner made one iteration
CleanStepped == pc = "cleaning" /\ pc' = "cleaning" /\ cursor' # cursor

\* the pattern of length L at index i of w, n times
Copies(w, i, L, n) == Array([j \in 1..(n * L) |-> w[i + ((j - 1) % L) + 1]])

\* C21: truncation step: at a cursor position where the scanner returns
\* repetitions > maxRepetitions the cleaner emits the pattern maxRepetitions
\* times (patternLength * maxRepetitions tokens), then one marker, and
\* advances the cursor by patternLength * repetitions; at any other
\* position it emits the token at the cursor and advances by 1.
C21_TruncationStep ==
    [][CleanStepped =>
          LET w == textWords
              best == findLongestRepetitivePattern(w, cursor, maxRepetitions)
              L == best.patternLength
          IN IF best.repetitions > maxRepetitions
             THEN /\ emitted' = emitted \o Copies(w, cursor, L, maxRepetitions)
                                        \o <<MARKER>>
                  /\ Len(emitted') = Len(emitted) + L * maxRepetitions + 1
                  /\ cursor' = cursor + L * best.repetitions
             ELSE /\ emitted' = Append(emitted, w[cursor + 1])
                  /\ cursor' = cursor + 1]_vars

\* a truncation of a pattern of two tokens has been made behind a token
\* that was emitted alone
C21_Witness ==
    /\ pc = "cleaning"
    /\ maxRepetitions = 1
    /\ Len(textWords) = 5
    /\ cursor = 5
    /\ Len(emitted) = 4
    /\ emitted[4] = MARKER

\* a is a subsequence of b, tokens compared case-sensitively (exact) or
\* case-insensitively
RECURSIVE IsSubsequence(_, _, _)
IsSubsequence(a, b, exact) ==
    IF a = <<>> THEN TRUE
    ELSE IF b = <<>> THEN FALSE
    ELSE IF (IF exact THEN Head(a) = Head(b) ELSE SameWord(Head(a), Head(b)))
         THEN IsSubsequence(Tail(a), Tail(b), exact)
         ELSE IsSubsequence(a, Tail(b), exact)

\* the tokens of w that are no token of the marker
NonMarker(w) == SelectSeq(w, LAMBDA t : \A m \in DOMAIN MarkerWords : t # MarkerWords[m])

\* C22 as stated: the non-marker tokens of the output, compared
\* case-sensitively, form a subsequence of the input token sequence.
C22_OrderAndCasingAsStated ==
    pc = "cleaned" => IsSubsequence(NonMarker(OutputWords), InputWords, TRUE)

\* C22: order is preserved and casing is taken from the input: the non-marker
\* tokens of the output, compared case-insensitively, form a subsequence of
\* the input token sequence, and each of them is spelled exactly as some
\* token of the input that is the same word (the kept repetitions of a
\* truncated pattern all carry the casing of its first occurrence).
C22_OrderAndCasing ==
    pc = "cleaned" =>
        /\ IsSubsequence(NonMarker(OutputWords), InputWords, FALSE)
        /\ \A j \in DOMAIN NonMarker(OutputWords) :
              \E i \in DOMAIN InputWords : NonMarker(OutputWords)[j] = InputWords[i]

\* a run whose repetitions differ in letter case has been truncated: the
\* output repeats the casing of the first occurrence
C22_Witness ==
    /\ pc = "cleaned"
    /\ maxRepetitions = 2
    /\ InputWords = <<<<"Fa">>, <<"fa">>, <<"fa">>, <<"no">>>>
    /\ NonMarker(OutputWords) = <<<<"Fa">>, <<"Fa">>, <<"no">>>>
    /\ HasMarker(OutputWords)

\* C27: truncation is reported whenever it is due: for every text and cap
\* k >= 1, if some pattern of 1 to 10 tokens repeats more than k times
\* consecutively from some position of the text, the output of the cleaner
\* holds at least one marker.
C27_TruncationReported ==
    (pc = "cleaned" /\ maxRepetitions >= 1
        /\ ExcessiveRun(InputWords, maxRepetitions))
    => HasMarker(OutputWords)

\* an excessive run that starts behind the first token, and inside a shorter
\* repetition, has been reported
C27_Witness ==
    /\ pc = "cleaned"
    /\ maxRepetitions = 2
    /\ InputWords = Words(<<"no", "fa", "fa", "no", "no", "no">>)
    /\ HasMarker(OutputWords)

\* C28: the cleaned-content note is truthful: whenever cleanTranscription
\* returns hadHallucination = true, its cleanedText holds at least one
\* marker, so the note is added only to transcriptions from which something
\* was removed.
C28_NoteTruthful ==
    (pc = "transcribed" /\ hadHallucination) => HasMarker(OutputWords)

\* s ends with e
EndsWith(s, e) == Len(s) >= Len(e) /\ SubSeq(s, Len(s) - Len(e) + 1, Len(s)) = e

\* the transcription a provider returns is the cleaned text, followed by the
\* note exactly when hadHalluc
NotedWhenReported(cleaned, hadHalluc) ==
    /\ transcriptionResult.transcription
         = cleaned \o (IF hadHalluc THEN NOTE ELSE <<>>)
    /\ EndsWith(transcriptionResult.transcription, NOTE) <=> hadHalluc

\* C25: caller note: in both provider paths the fixed note is appended to
\* the returned transcription if and only if cleanTranscription reported
\* hadHallucination = true, behind the cleaned text; in the Gemini path the
\* parsed summary, tags and diagram are left as parsed.
C25_CallerNote ==
    pc = "returned" =>
        /\ provider = "openai" =>
              /\ cleanedText = cleanTranscription(text).cleanedText
              /\ hadHallucination = cleanTranscription(text).hadHallucination
              /\ NotedWhenReported(cleanedText, hadHallucination)
        /\ provider = "google" =>
              LET parsedResult == parseGeneralResponse(responseText, includeFeatures)
                  called == parsedResult.transcription # <<>>
                  cleaned == cleanTranscription(parsedResult.transcription)
              IN /\ called => NotedWhenReported(cleaned.cleanedText,
                                                cleaned.hadHallucination)
                 /\ ~called => transcriptionResult.transcription = <<>>
                 /\ transcriptionResult.summary = parsedResult.summary
                 /\ transcriptionResult.tags = parsedResult.tags
                 /\ transcriptionResult.diagram = parsedResult.diagram

\* the Gemini path has returned a truncated transcription with the note and
\* with the summary and the tags of the response
C25_Witness ==
    /\ pc = "returned"
    /\ provider = "google"
    /\ hadHallucination
    /\ HasMarker(OutputWords)
    /\ EndsWith(transcriptionResult.transcription, NOTE)
    /\ transcriptionResult.summary = Some(<<"Big", " ", "in">>)
    /\ transcriptionResult.tags.defined

\* the OpenAI path has returned a cleaned transcription without the note
C25_WitnessOpenAI ==
    /\ pc = "returned"
    /\ provider = "openai"
    /\ ~hadHallucination
    /\ HasMarker(OutputWords)
    /\ transcriptionResult.transcription = cleanedText

\* the score made one iteration
ScoreStepped == pc = "scoring" /\ pc' = "scoring" /\ cursor' # cursor

\* the iteration counted a region of L * r tokens at the cursor, a pattern of
\* L tokens repeated exactly r > 2 times
CountedRegion ==
    \E L \in 1..Min(10, Len(textWords) - cursor) :
        LET r == Reps(textWords, cursor, L)
        IN /\ r > 2
           /\ counted' = counted + L * r
           /\ cursor' = cursor + L * r

\* C23: the repetitive-mass score is a fraction: the score loop goes left to
\* right, counts patternLength * repetitions tokens only for regions whose
\* repetitions exceed 2 and moves the cursor past each counted region, so the
\* counted tokens never outnumber the tokens behind the cursor and the
\* returned score counted / words.length lies between 0 and 1.
C23_ScoreFraction ==
    /\ [](pc \in {"scoring", "scored"} =>
            /\ 0 <= counted
            /\ counted <= cursor
            /\ cursor <= Len(textWords))
    /\ [][ScoreStepped =>
            \/ CountedRegion
            \/ counted' = counted /\ cursor' = cursor + 1]_vars
    /\ [](pc = "scored" =>
            LET score == calculateRepetitiveScore(textWords)
            IN /\ score = <<counted, Len(textWords)>>
               /\ score[2] > 0
               /\ 0 <= score[1]
               /\ score[1] <= score[2])

\* a call has returned
Returned == pc \in {"cleaned", "scored", "counted", "detected"}

\* an iteration of a cursor loop was made
CursorStepped ==
    /\ pc \in {"cleaning", "scoring", "detecting", "maxing"}
    /\ pc' = pc
    /\ vars' # vars

\* an iteration of the inner loop of the scanner was made
CountStepped == pc = "counting" /\ pc' = pc /\ vars' # vars

\* the cursor after the iteration that the loop at the cursor makes next
NextCursor ==
    CASE pc = "cleaning" ->
           CleanIteration(textWords, cursor, emitted, maxRepetitions).i
      [] pc \in {"scoring", "detecting"} ->
           ScoreIteration(textWords, cursor, counted).i
      [] pc = "maxing" -> cursor + 1

\* C24: termination: for every text and every cap k >= 0 the cleaner, the
\* score and the detector return (and so does the inner loop of the
\* scanner they call); in each cursor loop every iteration advances the
\* cursor by at least 1 and never beyond the number of tokens.
C24_Termination ==
    /\ <>Returned
    /\ (pc = "cleaning") ~> (pc = "cleaned")
    /\ (pc = "scoring") ~> (pc = "scored")
    /\ (pc \in {"detecting", "maxing"}) ~> (pc = "detected")
    /\ (pc = "counting") ~> (pc = "counted")
    /\ [](pc \in {"cleaning", "scoring", "detecting", "maxing"} =>
            /\ cursor <= Len(textWords)
            /\ cursor < Len(textWords) =>
                  NextCursor >= cursor + 1 /\ NextCursor <= Len(textWords))
    /\ [](pc = "counting" =>
            /\ runLen >= 1
            /\ runPos <= Len(textWords))
    /\ [][CursorStepped =>
            cursor' >= cursor + 1 /\ cursor' <= Len(textWords)]_vars
    /\ [][CountStepped =>
            runPos' >= runPos + 1 /\ runPos' <= Len(textWords)]_vars
    /\ [](pc = "cleaned" => cleanedText = cleanRepetitiveText(text, maxRepetitions))
    /\ [](pc = "detected" => hadHallucination = detectHallucination(text, threshold))

\* the cleaner has returned with the cap 0 from a text of five tokens
C24_Witness ==
    /\ pc = "cleaned"
    /\ maxRepetitions = 0
    /\ Len(textWords) = 5
    /\ cursor = 5

\* the detector has returned after both of its loops, finding a pattern
\* repeated more than 8 times
C24_WitnessDetect ==
    /\ pc = "detected"
    /\ hadHallucination
    /\ runCount = 9
    /\ cursor = Len(textWords)

\* a score strictly between 0 and 1: a region of three tokens has been
\* counted in a text of five
C23_Witness ==
    /\ pc = "scored"
    /\ Len(textWords) = 5
    /\ counted = 3
    /\ cursor = 5
(***************************************************************************)
(* Claims about the plugin                                                 *)
(***************************************************************************)
\* the lines that invocation i wrote into the editors
LinesBy(i) ==
    {<<e, k>> \in Editors \X (1..(MaxLines + 9 * MaxInvocations)) :
        k <= Len(docs[e]) /\ docs[e][k].by = i}

\* the provider of the settings has its API key
KeySet ==
    \/ settings.provider = "google" /\ settings.apiKey
    \/ settings.provider = "openai" /\ settings.openaiApiKey

\* the file called name is a file of the vault
Resolved(name) == name \in DOMAIN Vault /\ Vault[name].found /\ Vault[name].isTFile

\* the file called name is no larger than the model of the provider takes
SizeAllowed(name) ==
    \/ settings.provider = "google" /\ Vault[name].size <= 20 * 1024 * 1024
    \/ settings.provider = "openai" /\ Vault[name].size <= 25 * 1024 * 1024

\* invocation i returns in this step without calling the provider
Refused(i) == invocations[i].pc = "idle" /\ invocations'[i].pc = "returned"

\* the notice of the first of the four steps that fails on the line
FirstFailure(line) ==
    IF line.kind # "media" THEN "no audio file link"
    ELSE IF ~KeySet THEN "set the API key"
    ELSE IF ~Vault[line.arg].found THEN "file not found"
    ELSE IF ~Vault[line.arg].isTFile THEN "invalid file type"
    ELSE "file size exceeds limit"

\* C26: validation gates the upload: transcribeWithAI is called only after
\* a media file name was extracted from the cursor line, the provider
\* requirements were met, the file was resolved to a file of the vault and
\* its size was allowed, checked in this order; if one of these steps fails
\* the notice of that step is shown, transcribeWithAI is never called and
\* the document is not edited.
C26_ValidationGates ==
    /\ [](\A i \in Invocations :
            /\ i \in uploads =>
                  /\ invocations[i].file # null
                  /\ KeySet
                  /\ Resolved(invocations[i].file)
                  /\ SizeAllowed(invocations[i].file)
            /\ invocations[i].pc = "returned" =>
                  /\ i \notin uploads
                  /\ \E n \in notices : n[1] = i
                  /\ LinesBy(i) = {})
    /\ [][\A i \in Invocations :
            Refused(i) =>
                LET line == docs[activeView][invocations'[i].cursorLine]
                IN /\ docs' = docs
                   /\ uploads' = uploads
                   /\ notices' = notices \cup {<<i, FirstFailure(line)>>}
                   /\ \/ line.kind # "media"
                      \/ ~KeySet
                      \/ ~Resolved(line.arg)
                      \/ ~SizeAllowed(line.arg)]_vars

\* a command was refused for the size of its file alone, after another
\* command had called the provider
C26_Witness ==
    /\ settings.provider = "google"
    /\ uploads = {1}
    /\ invocations[1].file = "a.mp3"
    /\ invocations[2].pc = "returned"
    /\ <<2, "file size exceeds limit">> \in notices

\* invocation i has ended
Ended(i) == invocations[i].pc \in {"completed", "failed"}

\* a marker of the progress block that invocation i inserted stands in its
\* note
MarkerLeft(i) ==
    \E k \in DOMAIN docs[invocations[i].editor] :
        /\ docs[invocations[i].editor][k].kind \in {"start", "end"}
        /\ docs[invocations[i].editor][k].origin = i

\* C29: placeholder lifecycle: an invocation that inserted the progress
\* block ends with that block replaced, by the output when the provider
\* succeeds or by an error callout when it fails, so that no START or END
\* marker of it is left in the note, also when the active view changes
\* while the provider call is pending.
C29_PlaceholderLifecycle ==
    \A i \in Invocations : Ended(i) => ~MarkerLeft(i)

\* the only invocation failed while no markdown view was active, and the
\* markers of its block stand in the note
C29_BlockLeft ==
    /\ invocations[1].pc = "failed"
    /\ invocations[2].pc = "idle"
    /\ activeView = "none"
    /\ MarkerLeft(1)

\* the written lines of an editor
WrittenLines(e) == {k \in DOMAIN docs[e] : docs[e][k].by # 0}

\* the original line above line k of editor e
LineAbove(e, k) ==
    LET above == {m \in 1..k : docs[e][m].by = 0}
    IN IF above = {} THEN 0
       ELSE docs[e][CHOOSE m \in above : \A n \in above : n <= m].origin

\* C30: overlapping transcriptions do not cross: every progress update and
\* the final output of an invocation replace the progress block that this
\* invocation inserted, and after the invocations have finished each result
\* stands below its own media line.
C30_NoCrossing ==
    \A e \in Editors :
        /\ \A k \in WrittenLines(e) : docs[e][k].by = docs[e][k].origin
        /\ \A i \in Invocations :
              (/\ \A j \in Invocations : invocations[j].pc # "awaiting"
               /\ invocations[i].pc = "completed"
               /\ invocations[i].editor = e)
              => \A k \in WrittenLines(e) :
                    (docs[e][k].kind = "output" /\ docs[e][k].by = i)
                    => LineAbove(e, k) = invocations[i].media

\* both invocations ran in the same note and completed, and the output of the
\* first stands below the media line of the second
C30_Swapped ==
    /\ invocations[1].pc = "completed"
    /\ invocations[2].pc = "completed"
    /\ invocations[1].editor = "note"
    /\ invocations[2].editor = "note"
    /\ invocations[1].media # invocations[2].media
    /\ \E k \in WrittenLines("note") :
          /\ docs["note"][k].kind = "output"
          /\ docs["note"][k].by = 1
          /\ LineAbove("note", k) = invocations[2].media

====
